---- MODULE Spec2Model ----
(***************************************************************************)
(* A model of pop-fe.py: the BCD codec and the TOC synthesizer             *)
(* (get_toc_from_cu2), the magic-word derivation (generate_magic_word),    *)
(* the libcrypt signature scan (apply_ppf), the memory-card classifier     *)
(* (check_memory_card) and the main pipeline with its temp_files registry. *)
(*                                                                         *)
(* Python values are modelled as follows.  A str or a bytearray is a       *)
(* sequence (of one-character strings, of integers 0..255); Python index i *)
(* is TLA+ index i+1.  None is the empty tuple <<>> and a value v that may *)
(* be None is <<v>>.                                                       *)
(***************************************************************************)
EXTENDS Integers, Sequences, FiniteSets, TLC

VARIABLES
    \* ---- bcd() applied to one integer
    bcd_i, bcd_b,
    \* ---- get_toc_from_cu2
    cu2, lines, toc, buf, num_tracks, trk_end, track, toc_line, toc_pc, toc_err,
    \* ---- generate_magic_word
    page, status_code, mw, mw_pc,
    \* ---- apply_ppf, the signature scan
    img, img0, f_pos, magic_word, ap_pc,
    \* ---- check_memory_card called on one file
    card_file, card_ret, card_pc,
    \* ---- __main__: the arguments, the loop over the files, the registry of
    \* temporary files and the file system
    files, targets, install_mc, file_i, idx, mc,
    cue_files, cu2_files, img_files, mem_cards, aea_files, temp_files,
    fs, content, main_pc,
    \* ---- what the run leaves behind: the paths handed to unlink, the discs
    \* added to each container builder, the lines of each multi-disc index
    \* file, and the disc installed under each output name
    submitted, built, index, installed,
    \* ---- the libcrypt step of __main__ and the patch apply_ppf chooses
    lc_discs, lc_args, lc_magic_word, lc_img_files, lc_calls, lc_temp_files, lc_idx, lc_pc,
    \* ---- create_ps2 and create_ps3 on a title: the builder, the VCD files and DISCS.TXT
    bd_target, bd_ccd, bd_p, bd_i, bd_discs_txt, bd_vcd, bd_written, bd_pc,
    \* ---- create_blank_mc: the file before the call, the file, the writes done
    bm_prior, bm_file, bm_step, bm_pc,
    \* ---- the game id: --game_id, the GAME_ID file, the ids in the images, the result
    gi_arg, gi_file, gi_images, gi_game_id, gi_disc_ids, gi_pc,
    \* ---- the signature scan run twice: the image before, after one call, now
    rs_img0, rs_img1, rs_img, rs_pos, rs_word, rs_run, rs_pc,
    \* ---- install_psp_mc: the cards given, the cards staged, the SAVEDATA files
    im_cards, im_staged, im_savedata, im_game, im_save, im_failed, im_pc,
    \* ---- create_ps3: the staging directory, what is registered for deletion
    st_snd0, st_cards, st_fs, st_temp, st_step, st_pc

bcdVars == <<bcd_i, bcd_b>>
tocVars == <<cu2, lines, toc, buf, num_tracks, trk_end, track, toc_line, toc_pc, toc_err>>
mwVars == <<page, status_code, mw, mw_pc>>
apVars == <<img, img0, f_pos, magic_word, ap_pc>>
cardVars == <<card_file, card_ret, card_pc>>
mainVars == <<files, targets, install_mc, file_i, idx, mc,
              cue_files, cu2_files, img_files, mem_cards, aea_files, temp_files,
              fs, content, main_pc, submitted, built, index, installed>>
lcVars == <<lc_discs, lc_args, lc_magic_word, lc_img_files, lc_calls, lc_temp_files, lc_idx, lc_pc>>
bdVars == <<bd_target, bd_ccd, bd_p, bd_i, bd_discs_txt, bd_vcd, bd_written, bd_pc>>
bmVars == <<bm_prior, bm_file, bm_step, bm_pc>>
giVars == <<gi_arg, gi_file, gi_images, gi_game_id, gi_disc_ids, gi_pc>>
rsVars == <<rs_img0, rs_img1, rs_img, rs_pos, rs_word, rs_run, rs_pc>>
imVars == <<im_cards, im_staged, im_savedata, im_game, im_save, im_failed, im_pc>>
stVars == <<st_snd0, st_cards, st_fs, st_temp, st_step, st_pc>>
vars == <<bcdVars, tocVars, mwVars, apVars, cardVars, mainVars, lcVars, bdVars, bmVars, giVars, rsVars, imVars, stVars>>

\* What an action of one part leaves alone: the variables of the other parts.
notBcd == <<tocVars, mwVars, apVars, cardVars, mainVars, lcVars, bdVars, bmVars, giVars, rsVars, imVars, stVars>>
notToc == <<bcdVars, mwVars, apVars, cardVars, mainVars, lcVars, bdVars, bmVars, giVars, rsVars, imVars, stVars>>
notMw == <<bcdVars, tocVars, apVars, cardVars, mainVars, lcVars, bdVars, bmVars, giVars, rsVars, imVars, stVars>>
notAp == <<bcdVars, tocVars, mwVars, cardVars, mainVars, lcVars, bdVars, bmVars, giVars, rsVars, imVars, stVars>>
notCard == <<bcdVars, tocVars, mwVars, apVars, mainVars, lcVars, bdVars, bmVars, giVars, rsVars, imVars, stVars>>
notMain == <<bcdVars, tocVars, mwVars, apVars, cardVars, lcVars, bdVars, bmVars, giVars, rsVars, imVars, stVars>>
notLc == <<bcdVars, tocVars, mwVars, apVars, cardVars, mainVars, bdVars, bmVars, giVars, rsVars, imVars, stVars>>
notBd == <<bcdVars, tocVars, mwVars, apVars, cardVars, mainVars, lcVars, bmVars, giVars, rsVars, imVars, stVars>>
notBm == <<bcdVars, tocVars, mwVars, apVars, cardVars, mainVars, lcVars, bdVars, giVars, rsVars, imVars, stVars>>
notGi == <<bcdVars, tocVars, mwVars, apVars, cardVars, mainVars, lcVars, bdVars, bmVars, rsVars, imVars, stVars>>
notRs == <<bcdVars, tocVars, mwVars, apVars, cardVars, mainVars, lcVars, bdVars, bmVars, giVars, imVars, stVars>>
notIm == <<bcdVars, tocVars, mwVars, apVars, cardVars, mainVars, lcVars, bdVars, bmVars, giVars, rsVars, stVars>>
notSt == <<bcdVars, tocVars, mwVars, apVars, cardVars, mainVars, lcVars, bdVars, bmVars, giVars, rsVars, imVars>>

None == <<>>
Some(v) == <<v>>

Min(a, b) == IF a < b THEN a ELSE b

\* s[a:b] of Python for 0 <= a, 0 <= b: the slice is clamped to the string.
Slice(s, a, b) == SubSeq(s, a + 1, Min(b, Len(s)))

\* s[a:] of Python for 0 <= a.
SliceFrom(s, a) == SubSeq(s, a + 1, Len(s))

\* re.search('^prefix', line)
StartsWith(line, prefix) ==
    /\ Len(line) >= Len(prefix)
    /\ SubSeq(line, 1, Len(prefix)) = prefix

(***************************************************************************)
(* bcd(i) of get_toc_from_cu2:  int(i % 10) + 16 * (int(i / 10) % 10).     *)
(* i / 10 is a float division and int() truncates towards zero; % is       *)
(* Python's floored modulo, which is TLA+'s %.                             *)
(***************************************************************************)
TruncDiv10(i) == IF i >= 0 THEN i \div 10 ELSE -((-i) \div 10)

bcd_swapped(i) == (TruncDiv10(i) % 10) + 16 * (i % 10)

bcd(i) == (i % 10) + 16 * (TruncDiv10(i) % 10)

\* b & 0xF and b >> 4 of a byte, and the decoder the round trip is stated with.
LowNibble(b) == b % 16
HighNibble(b) == b \div 16
decode_bcd(b) == LowNibble(b) + 10 * HighNibble(b)

\* Inputs of bcd: 0..MaxBcdInput, which reaches past the two-digit range.
MaxBcdInput == 120

BcdIdle == bcd_i = 0 /\ bcd_b = None

BcdInit == bcd_i \in 0..MaxBcdInput /\ bcd_b = None

BcdEncode ==
    /\ bcd_b = None
    /\ bcd_b' = Some(bcd(bcd_i))
    /\ UNCHANGED <<bcd_i, notBcd>>


(***************************************************************************)
(* Text of a CU2 descriptor.  A descriptor is drawn as a record and        *)
(* rendered to the lines f.readlines() returns; get_toc_from_cu2 reads     *)
(* the rendered characters only.                                           *)
(***************************************************************************)
DigitChar == <<"0", "1", "2", "3", "4", "5", "6", "7", "8", "9">>

IsDigit(c) == \E d \in 1..10 : DigitChar[d] = c
DigitOf(c) == (CHOOSE d \in 1..10 : DigitChar[d] = c) - 1

RECURSIVE Digits(_)
Digits(n) == IF n < 10 THEN <<DigitChar[n + 1]>>
             ELSE Digits(n \div 10) \o <<DigitChar[(n % 10) + 1]>>

TwoDigits(n) == <<DigitChar[(n \div 10) + 1], DigitChar[(n % 10) + 1]>>

MsfText(msf) ==
    TwoDigits(msf[1]) \o <<":">> \o TwoDigits(msf[2]) \o <<":">> \o TwoDigits(msf[3])

NL == <<"\n">>
Spaces(n) == [k \in 1..n |-> " "]

\* The two layouts of the ntracks and trk end lines: "columns" pads the
\* keyword with blanks to a fixed column, "equals" writes keyword=value.
NtracksLine(style, n) ==
    <<"n", "t", "r", "a", "c", "k", "s">>
        \o (IF style = "columns" THEN <<" ">> ELSE <<"=">>) \o Digits(n) \o NL

TrkEndLine(style, msf) ==
    <<"t", "r", "k", " ", "e", "n", "d">>
        \o (IF style = "columns" THEN Spaces(3) ELSE <<"=">>) \o MsfText(msf)

SizeLine(msf) == <<"s", "i", "z", "e">> \o Spaces(6) \o MsfText(msf) \o NL

TrackLine(kind, k, msf) ==
    (IF kind = "data"
        THEN <<"d", "a", "t", "a">> \o <<DigitChar[(k % 10) + 1]>> \o Spaces(5)
        ELSE <<"t", "r", "a", "c", "k">> \o TwoDigits(k) \o Spaces(3))
        \o MsfText(msf) \o NL

Render(d) ==
    (IF d.has_ntracks THEN <<NtracksLine(d.style, d.ntracks)>> ELSE <<>>)
        \o <<SizeLine(d.end)>>
        \o [k \in 1..Len(d.tracks) |-> TrackLine(d.tracks[k].kind, k, d.tracks[k].msf)]
        \o <<NL>>
        \o (IF d.has_end THEN <<TrkEndLine(d.style, d.end)>> ELSE <<>>)

(***************************************************************************)
(* int(s) of Python on a str: blanks around the number are stripped, one   *)
(* sign is allowed, and the rest must be a non-empty run of digits;        *)
(* anything else raises ValueError.                                        *)
(***************************************************************************)
IsSpace(c) == c \in {" ", "\n", "\r", "\t"}

RECURSIVE LStrip(_)
LStrip(s) == IF s # <<>> /\ IsSpace(Head(s)) THEN LStrip(Tail(s)) ELSE s

RECURSIVE RStrip(_)
RStrip(s) == IF s # <<>> /\ IsSpace(s[Len(s)]) THEN RStrip(SubSeq(s, 1, Len(s) - 1)) ELSE s

RECURSIVE DigitsVal(_)
DigitsVal(s) == IF s = <<>> THEN 0
                ELSE 10 * DigitsVal(SubSeq(s, 1, Len(s) - 1)) + DigitOf(s[Len(s)])

PyInt(s) ==
    LET t == RStrip(LStrip(s))
        signed == t # <<>> /\ Head(t) \in {"+", "-"}
        u == IF signed THEN Tail(t) ELSE t
        good == u # <<>> /\ \A k \in 1..Len(u) : IsDigit(u[k])
    IN  IF ~good THEN [ok |-> FALSE, val |-> 0]
        ELSE [ok |-> TRUE,
              val |-> IF signed /\ Head(t) = "-" THEN -DigitsVal(u) ELSE DigitsVal(u)]


(***************************************************************************)
(* get_toc_from_cu2                                                        *)
(***************************************************************************)
_toc_header == <<
    65, 0, 160, 0, 0, 0, 0, 1, 32, 0,
     1, 0, 161, 0, 0, 0, 0, 0,  0, 0,
     1, 0, 162, 0, 0, 0, 0, 0,  0, 0 >>

\* b[i] = v on a bytearray.
SetByte(b, i, v) == [b EXCEPT ![i + 1] = v]
\* b[i]
Byte(b, i) == b[i + 1]

KwNtracks == <<"n", "t", "r", "a", "c", "k", "s">>
KwTrkEnd == <<"t", "r", "k", " ", "e", "n", "d">>
KwData == <<"d", "a", "t", "a">>
KwTrack == <<"t", "r", "a", "c", "k">>

\* line[7:] of an ntracks line and line[10:] of a trk end or track line.
NtracksField_col8(line) == SliceFrom(line, 8)
NtracksField(line) == SliceFrom(line, 7)
MsfField_col8(line) == SliceFrom(line, 8)
MsfField(line) == SliceFrom(line, 10)

\* The first loop over the lines: the last ntracks and trk end lines win, and
\* int() raising ends the call.
RECURSIVE ScanLines(_, _, _)
ScanLines(ls, nt, te) ==
    IF ls = <<>> THEN [nt |-> nt, te |-> te, err |-> None]
    ELSE LET line == Head(ls)
             n == PyInt(NtracksField(line))
         IN  IF StartsWith(line, KwNtracks) /\ ~n.ok
                THEN [nt |-> nt, te |-> te, err |-> Some("ValueError")]
             ELSE ScanLines(Tail(ls),
                            IF StartsWith(line, KwNtracks) THEN Some(n.val) ELSE nt,
                            IF StartsWith(line, KwTrkEnd) THEN Some(MsfField(line)) ELSE te)

\* The three int() calls on the fields of an MSF text, in the order made.
MsfInts(msf) == <<PyInt(Slice(msf, 0, 2)), PyInt(Slice(msf, 3, 5)), PyInt(Slice(msf, 6, 8))>>

\* toc[17], toc[27], toc[28], toc[29] written in turn: None % 10 and None[:2]
\* raise TypeError, int() of a malformed field raises ValueError, and the writes
\* made before the raise stay in the local buffer.
WriteHeader_lenient(t, nt, te) ==
    LET t1  == IF nt = None THEN t ELSE SetByte(t, 17, bcd(nt[1]))
        f   == IF te = None THEN <<>> ELSE MsfInts(te[1])
    IN  IF te = None \/ ~f[1].ok \/ ~f[2].ok \/ ~f[3].ok THEN [toc |-> t1, err |-> None]
        ELSE [toc |-> SetByte(SetByte(SetByte(t1, 27, bcd(f[1].val)), 28, bcd(f[2].val)),
                              29, bcd(f[3].val)),
              err |-> None]

WriteHeader(t, nt, te) ==
    IF nt = None THEN [toc |-> t, err |-> Some("TypeError")]
    ELSE LET t1 == SetByte(t, 17, bcd(nt[1]))
         IN  IF te = None THEN [toc |-> t1, err |-> Some("TypeError")]
             ELSE LET f  == MsfInts(te[1])
                      t2 == SetByte(t1, 27, bcd(f[1].val))
                      t3 == SetByte(t2, 28, bcd(f[2].val))
                      t4 == SetByte(t3, 29, bcd(f[3].val))
                  IN  IF ~f[1].ok THEN [toc |-> t1, err |-> Some("ValueError")]
                      ELSE IF ~f[2].ok THEN [toc |-> t2, err |-> Some("ValueError")]
                      ELSE IF ~f[3].ok THEN [toc |-> t3, err |-> Some("ValueError")]
                      ELSE [toc |-> t4, err |-> None]

IsTrackLine(line) == StartsWith(line, KwData) \/ StartsWith(line, KwTrack)

\* The record with the track number in byte 1 and the MSF in bytes 5 to 7.
FillRecord_packed(b, trk, line) ==
    LET f  == MsfInts(MsfField(line))
        b1 == SetByte(SetByte(b, 0, IF trk = 1 THEN 65 ELSE 1), 1, bcd(trk))
        b2 == SetByte(b1, 5, bcd(f[1].val))
        b3 == SetByte(b2, 6, bcd(f[2].val))
        b4 == SetByte(b3, 7, bcd(f[3].val))
    IN  IF ~f[1].ok THEN [buf |-> b1, err |-> Some("ValueError")]
        ELSE IF ~f[2].ok THEN [buf |-> b2, err |-> Some("ValueError")]
        ELSE IF ~f[3].ok THEN [buf |-> b3, err |-> Some("ValueError")]
        ELSE [buf |-> b4, err |-> None]

\* The record with the control byte chosen by the kind of line.
FillRecord_bykind(b, trk, line) ==
    LET f  == MsfInts(MsfField(line))
        b1 == SetByte(SetByte(b, 0, IF StartsWith(line, KwData) THEN 65 ELSE 1), 2, bcd(trk))
        b2 == SetByte(b1, 7, bcd(f[1].val))
        b3 == SetByte(b2, 8, bcd(f[2].val))
        b4 == SetByte(b3, 9, bcd(f[3].val))
    IN  IF ~f[1].ok THEN [buf |-> b1, err |-> Some("ValueError")]
        ELSE IF ~f[2].ok THEN [buf |-> b2, err |-> Some("ValueError")]
        ELSE IF ~f[3].ok THEN [buf |-> b3, err |-> Some("ValueError")]
        ELSE [buf |-> b4, err |-> None]

\* buf[0], buf[2], buf[7], buf[8], buf[9] written in turn for one track line.
FillRecord(b, trk, line) ==
    LET f  == MsfInts(MsfField(line))
        b1 == SetByte(SetByte(b, 0, IF trk = 1 THEN 65 ELSE 1), 2, bcd(trk))
        b2 == SetByte(b1, 7, bcd(f[1].val))
        b3 == SetByte(b2, 8, bcd(f[2].val))
        b4 == SetByte(b3, 9, bcd(f[3].val))
    IN  IF ~f[1].ok THEN [buf |-> b1, err |-> Some("ValueError")]
        ELSE IF ~f[2].ok THEN [buf |-> b2, err |-> Some("ValueError")]
        ELSE IF ~f[3].ok THEN [buf |-> b3, err |-> Some("ValueError")]
        ELSE [buf |-> b4, err |-> None]

\* Bounds of the descriptors drawn.
MaxTracks == 2
EndMsfs == {<<0, 0, 0>>, <<1, 2, 3>>, <<12, 34, 56>>, <<99, 99, 99>>}
StartMsfs == {<<0, 0, 0>>, <<12, 34, 56>>}
DeclaredCounts == 0..(MaxTracks + 1) \cup {12}

TrackLists ==
    UNION {[1..n -> [kind : {"data", "track"}, msf : StartMsfs]] : n \in 0..MaxTracks}

Descriptors ==
    {d \in [style : {"columns", "equals"}, has_ntracks : BOOLEAN, ntracks : DeclaredCounts,
            has_end : BOOLEAN, end : EndMsfs, tracks : TrackLists] :
        ~d.has_ntracks => d.ntracks = 0}

TocIdle ==
    /\ cu2 = None /\ lines = <<>> /\ toc = <<>> /\ buf = <<>> /\ num_tracks = None /\ trk_end = None
    /\ track = 0 /\ toc_line = 0 /\ toc_pc = "idle" /\ toc_err = None

\* The state at the call: toc = bytearray(_toc_header), nothing read yet.
TocInit ==
    /\ cu2 \in {Some(d) : d \in Descriptors}
    /\ lines = <<>>
    /\ toc = _toc_header
    /\ buf = <<>>
    /\ num_tracks = None /\ trk_end = None
    /\ track = 0 /\ toc_line = 0
    /\ toc_pc = "scan" /\ toc_err = None

\* Lines 414-424.
TocScan ==
    /\ toc_pc = "scan"
    /\ lines' = Render(cu2[1])
    /\ LET r == ScanLines(lines', None, None)
       IN  /\ num_tracks' = r.nt
           /\ trk_end' = r.te
           /\ toc_err' = r.err
           /\ toc_pc' = IF r.err = None THEN "header" ELSE "raised"
    /\ UNCHANGED <<cu2, toc, buf, track, toc_line, notToc>>

\* Lines 425-433.
TocHeader ==
    /\ toc_pc = "header"
    /\ LET r == WriteHeader(toc, num_tracks, trk_end)
       IN  /\ toc' = r.toc
           /\ toc_err' = r.err
           /\ toc_pc' = IF r.err = None THEN "tracks" ELSE "raised"
    /\ buf' = [k \in 1..10 |-> 0]
    /\ track' = 1
    /\ toc_line' = 1
    /\ UNCHANGED <<cu2, lines, num_tracks, trk_end, notToc>>

\* Lines 434-436: a line that is no data or track line.
TocSkipLine ==
    /\ toc_pc = "tracks"
    /\ toc_line <= Len(lines)
    /\ ~IsTrackLine(lines[toc_line])
    /\ toc_line' = toc_line + 1
    /\ UNCHANGED <<cu2, lines, toc, buf, num_tracks, trk_end, track, toc_pc, toc_err, notToc>>

\* Lines 438-446: one 10-byte record appended.
TocTrack ==
    /\ toc_pc = "tracks"
    /\ toc_line <= Len(lines)
    /\ IsTrackLine(lines[toc_line])
    /\ LET r == FillRecord(buf, track, lines[toc_line])
       IN  /\ buf' = r.buf
           /\ toc_err' = r.err
           /\ IF r.err = None
                 THEN /\ track' = track + 1
                      /\ toc' = toc \o r.buf
                      /\ toc_line' = toc_line + 1
                      /\ toc_pc' = "tracks"
                 ELSE /\ toc_pc' = "raised"
                      /\ UNCHANGED <<track, toc, toc_line>>
    /\ UNCHANGED <<cu2, lines, num_tracks, trk_end, notToc>>

\* Line 448.
TocReturn ==
    /\ toc_pc = "tracks"
    /\ toc_line > Len(lines)
    /\ toc_pc' = "returned"
    /\ UNCHANGED <<cu2, lines, toc, buf, num_tracks, trk_end, track, toc_line, toc_err, notToc>>

(***************************************************************************)
(* generate_magic_word.  The page fetched is a sequence of tokens: the     *)
(* section header, the word 'table', the <td> cells the code looks for and *)
(* the cells of the alternate sectors; b.find(x) is the position of the    *)
(* first token x, or -1.  No token is a substring of another, and only the *)
(* first token of a text sits at character position 0.                     *)
(***************************************************************************)
Header == "Sectors with LibCrypt protection"
Table == "table"
\* What is left of the last token when b[:-1] cuts its last character off.
Cut == "..."

\* The sixteen tests of lines 170-204: the two texts searched and the bit set.
MagicTests == <<
    <<"<td>14105</td>", "<td>14110</td>", 32768>>,
    <<"<td>14231</td>", "<td>14236</td>", 16384>>,
    <<"<td>14485</td>", "<td>14490</td>", 8192>>,
    <<"<td>14579</td>", "<td>14584</td>", 4096>>,
    <<"<td>14649</td>", "<td>14654</td>", 2048>>,
    <<"<td>14899</td>", "<td>14904</td>", 1024>>,
    <<"<td>15056</td>", "<td>15061</td>", 512>>,
    <<"<td>15130</td>", "<td>15135</td>", 256>>,
    <<"<td>15242</td>", "<td>15247</td>", 128>>,
    <<"<td>15312</td>", "<td>15317</td>", 64>>,
    <<"<td>15378</td>", "<td>15383</td>", 32>>,
    <<"<td>15628</td>", "<td>15633</td>", 16>>,
    <<"<td>15919</td>", "<td>15924</td>", 8>>,
    <<"<td>16031</td>", "<td>16036</td>", 4>>,
    <<"<td>16101</td>", "<td>16106/td>", 2>>,
    <<"<td>16167</td>", "<td>16172</td>", 1>> >>

\* b.find(x)
RECURSIVE FindFrom(_, _, _)
FindFrom(b, x, k) == IF k > Len(b) THEN -1
                     ELSE IF b[k] = x THEN k - 1
                     ELSE FindFrom(b, x, k + 1)
Find(b, x) == FindFrom(b, x, 1)

\* b[:idx]; b[:-1] cuts the last character.
Upto(b, end) ==
    IF end >= 0 THEN SubSeq(b, 1, end)
    ELSE IF b = <<>> THEN b
    ELSE [b EXCEPT ![Len(b)] = Cut]

\* Lines 165-167: the text from the header to the next 'table'.
Section(b) ==
    LET c == SliceFrom(b, Find(b, Header))
    IN  Upto(c, Find(c, Table))

Hit_primary(b, t) == Find(b, t[1]) > 0
Hit(b, t) == Find(b, t[1]) > 0 \/ Find(b, t[2]) > 0

\* mw = mw | bit for every test that hits; the bits are distinct.
RECURSIVE OrBits(_, _)
OrBits(b, k) == IF k = 0 THEN 0
                ELSE OrBits(b, k - 1) + (IF Hit(b, MagicTests[k]) THEN MagicTests[k][3] ELSE 0)

\* The cells a page may hold: <td>n</td> for the sixteen sectors and the
\* sectors five further on.
Sectors == <<14105, 14231, 14485, 14579, 14649, 14899, 15056, 15130,
             15242, 15312, 15378, 15628, 15919, 16031, 16101, 16167>>
Td(n) == "<td>" \o ToString(n) \o "</td>"
Cells == [k \in 1..32 |-> IF k <= 16 THEN Td(Sectors[k]) ELSE Td(Sectors[k - 16] + 5)]

\* Bound: the number of cells in the protection section of a page.
MaxCells == 2

RECURSIVE Sorted(_)
Sorted(S) == IF S = {} THEN <<>>
             ELSE LET k == CHOOSE x \in S : \A y \in S : x <= y
                  IN  <<Cells[k]>> \o Sorted(S \ {k})

RECURSIVE SetsUpTo(_)
SetsUpTo(n) == IF n = 0 THEN {{}}
               ELSE LET P == SetsUpTo(n - 1)
                    IN  P \cup {S \cup {k} : S \in P, k \in 1..32}

CellSets == SetsUpTo(MaxCells)

\* A page: cells ahead of the header or none, the header or none, the cells of
\* the section, 'table' or none, and cells after it or none.
Pages ==
    {pre \o hdr \o Sorted(S) \o tbl \o post :
        pre \in {<<>>, <<Td(14105)>>}, hdr \in {<<>>, <<Header>>}, S \in CellSets,
        tbl \in {<<>>, <<Table>>}, post \in {<<>>, <<Td(16167)>>}}

MwIdle == page = <<>> /\ status_code = 0 /\ mw = None /\ mw_pc = "idle"

MwInit == page \in Pages /\ status_code = 0 /\ mw = None /\ mw_pc = "get"

\* Lines 155-158: requests.get answers 200 with the page, or something else.
MwGet ==
    /\ mw_pc = "get"
    /\ \E code \in {200, 404} :
          /\ status_code' = code
          /\ mw_pc' = IF code = 200 THEN "scan" ELSE "raised"
    /\ UNCHANGED <<page, mw, notMw>>

\* Lines 160-207.
MwScan ==
    /\ mw_pc = "scan"
    /\ mw' = IF Find(page, Header) = -1 THEN Some(0)
             ELSE Some(OrBits(Section(page), 16))
    /\ mw_pc' = "returned"
    /\ UNCHANGED <<page, status_code, notMw>>

(***************************************************************************)
(* apply_ppf with auto_libcrypt set: the signature scan.  img is the file  *)
(* opened 'rb+', f_pos its position.                                       *)
(***************************************************************************)
Signature == <<37, 48, 134, 0>>

\* The bytes read at a time, standing for the 0x9300 of line 1022: room for
\* two signatures and a byte.
WindowSize == 9

\* struct.pack('<H', w)
PackH_be(w) == <<w \div 256, w % 256>>
PackH(w) == <<w % 256, w \div 256>>

\* buf.find(sub)
RECURSIVE FindBytesFrom(_, _, _)
FindBytesFrom(b, sub, k) ==
    IF k + Len(sub) - 1 > Len(b) THEN -1
    ELSE IF SubSeq(b, k, k + Len(sub) - 1) = sub THEN k - 1
    ELSE FindBytesFrom(b, sub, k + 1)
FindBytes(b, sub) == FindBytesFrom(b, sub, 1)

\* struct.pack_into('<H', b, pos, w)
PackInto(b, pos, w) ==
    [k \in 1..Len(b) |-> IF k = pos + 1 THEN PackH(w)[1]
                         ELSE IF k = pos + 2 THEN PackH(w)[2]
                         ELSE b[k]]

\* f.read(n) at position p, and f.seek(p); f.write(b)
ReadAt(file, p, n) == SubSeq(file, p + 1, Min(p + n, Len(file)))
\* f.write(b) without the f.seek(off) of line 1030: at the position the read left.
WriteAt_noseek(file, p, b) ==
    LET q == p + Len(b)
    IN  [k \in 1..(IF q + Len(b) > Len(file) THEN q + Len(b) ELSE Len(file)) |->
            IF k > q /\ k <= q + Len(b) THEN b[k - q] ELSE file[k]]
WriteAt(file, p, b) ==
    [k \in 1..Len(file) |-> IF k > p /\ k <= p + Len(b) THEN b[k - p] ELSE file[k]]

\* Lines 1025-1029: the window as written back, or None when nothing is written.
Patched_any(b, w) ==
    LET pos == FindBytes(b, Signature)
    IN  IF pos >= 0 THEN Some(PackInto(PackInto(b, pos, w), pos + 2, 13510)) ELSE None
Patched(b, w) ==
    LET pos == FindBytes(b, Signature)
    IN  IF pos > 0 THEN Some(PackInto(PackInto(b, pos, w), pos + 2, 13510)) ELSE None

\* Bounds of the images drawn: an image is up to MaxPieces pieces, each the
\* signature, the first half of it, or one other byte.
MaxPieces == 4
Pieces == {Signature, <<37, 48>>, <<255>>}
MagicWords == {32768, 134, 12325}

RECURSIVE ImagesOf(_)
ImagesOf(n) == IF n = 0 THEN {<<>>}
               ELSE LET P == ImagesOf(n - 1)
                    IN  P \cup {i \o p : i \in P, p \in Pieces}

ApIdle == img = <<>> /\ img0 = <<>> /\ f_pos = 0 /\ magic_word = 0 /\ ap_pc = "idle"

ApInit ==
    /\ img \in ImagesOf(MaxPieces)
    /\ img0 = img
    /\ f_pos = 0
    /\ magic_word \in MagicWords
    /\ ap_pc = "scan"

\* Lines 1021-1031 with a window read.
ApWindow ==
    /\ ap_pc = "scan"
    /\ LET off == f_pos
           b == ReadAt(img, off, WindowSize)
           p == Patched(b, magic_word)
       IN  /\ b # <<>>
           /\ img' = IF p = None THEN img ELSE WriteAt(img, off, p[1])
           /\ f_pos' = off + Len(b)
    /\ UNCHANGED <<img0, magic_word, ap_pc, notAp>>

\* Lines 1023-1024 and 1032: nothing left to read.
ApEnd ==
    /\ ap_pc = "scan"
    /\ ReadAt(img, f_pos, WindowSize) = <<>>
    /\ ap_pc' = "returned"
    /\ UNCHANGED <<img, img0, f_pos, magic_word, notAp>>

(***************************************************************************)
(* check_memory_card.  A file is [name, size]; what mc.read(n) returns at  *)
(* position p is the part [from, to) of that file, to = min(p + n, size).  *)
(***************************************************************************)
CardSize == 131072

Read(f, p, n) == [file |-> f.name, from |-> p, to |-> Min(p + n, f.size)]

check_memory_card_noseek(f) ==
    IF f.size \in {131072, 131200, 131136, 134976} THEN Some(<<Read(f, 0, CardSize)>>)
    ELSE IF f.size = 262144
        THEN Some(<<Read(f, 0, CardSize), Read(f, CardSize, CardSize)>>)
    ELSE None

check_memory_card_atleast(f) ==
    IF f.size >= 131072 THEN Some(<<Read(f, f.size - CardSize, CardSize)>>) ELSE None

\* Lines 835-853; falling off the end returns None.
check_memory_card(f) ==
    IF f.size = 131072 THEN Some(<<Read(f, 0, CardSize)>>)
    ELSE IF f.size = 131200 THEN Some(<<Read(f, 128, CardSize)>>)
    ELSE IF f.size = 131136 THEN Some(<<Read(f, 64, CardSize)>>)
    ELSE IF f.size = 262144
        THEN Some(<<Read(f, 0, CardSize), Read(f, CardSize, CardSize)>>)
    ELSE IF f.size = 134976 THEN Some(<<Read(f, 3904, CardSize)>>)
    ELSE None

\* Bound: the file sizes drawn are the five sizes of lines 835-849 and the
\* sizes up to MaxDelta bytes away from each, and the empty file.
MaxDelta == 5
DumpSizes == {s + d : s \in {131072, 131200, 131136, 262144, 134976},
                      d \in (-MaxDelta)..MaxDelta} \cup {0}

CardIdle == card_file = None /\ card_ret = None /\ card_pc = "idle"

CardInit ==
    /\ card_file \in {Some([name |-> "card.mcr", size |-> s]) : s \in DumpSizes}
    /\ card_ret = None
    /\ card_pc = "call"

CardCheck ==
    /\ card_pc = "call"
    /\ card_ret' = check_memory_card(card_file[1])
    /\ card_pc' = "returned"
    /\ UNCHANGED <<card_file, notCard>>

(***************************************************************************)
(* The main pipeline.  A path is [base, ext]: cue_file[-3:] is its ext and *)
(* cue_file[:-4] + '.cu2' the same base with ext "cu2".  fs is the set of  *)
(* paths that exist; content maps every path ever written to what it      *)
(* holds: the input file it derives from (origin) and, for a cue sheet,    *)
(* the image files its FILE lines name (refs).                             *)
(***************************************************************************)
Path(base, ext) == [base |-> base, ext |-> ext]
Holds(origin, refs) == [origin |-> origin, refs |-> refs]

\* The files a run may be given, by kind: two memory-card dumps, a small file
\* that is no dump, a cue sheet with its image and CU2 beside it, a cue sheet
\* of two image files (a data and an audio track), a bare image, and a zip of
\* an image and its cue sheet.
FileKinds == {"card", "card2", "small", "cue", "cuemulti", "bin", "zip"}
KindExt(kind) ==
    CASE kind \in {"card", "card2"} -> "mcr"
      [] kind = "small" -> "sav"
      [] kind \in {"cue", "cuemulti"} -> "cue"
      [] kind = "bin" -> "bin"
      [] kind = "zip" -> "zip"
KindSize(kind) ==
    CASE kind = "card" -> 131072
      [] kind = "card2" -> 262144
      [] kind = "small" -> 131073
      [] kind \in {"cue", "cuemulti"} -> 1000
      [] kind \in {"bin", "zip"} -> 300000

ArgBase(p) == "f" \o ToString(p)
\* args.files[p - 1]
ArgPath(p, kind) == Path(ArgBase(p), KindExt(kind))

\* What is on disk for the p-th argument before the run.
Given(p, kind) ==
    (ArgPath(p, kind) :> Holds(p, IF kind = "cue" THEN <<Path(ArgBase(p), "bin")>>
                                  ELSE IF kind = "cuemulti"
                                      THEN <<Path(ArgBase(p) \o "_1", "bin"),
                                             Path(ArgBase(p) \o "_2", "bin")>>
                                  ELSE <<>>))
    @@ (IF kind = "cue"
           THEN (Path(ArgBase(p), "bin") :> Holds(p, <<>>))
                    @@ (Path(ArgBase(p), "cu2") :> Holds(p, <<>>))
        ELSE IF kind = "cuemulti"
           THEN (Path(ArgBase(p) \o "_1", "bin") :> Holds(p, <<>>))
                    @@ (Path(ArgBase(p) \o "_2", "bin") :> Holds(p, <<>>))
        ELSE <<>>)

RECURSIVE GivenAll(_, _)
GivenAll(fl, p) == IF p = 0 THEN <<>> ELSE Given(p, fl[p]) @@ GivenAll(fl, p - 1)

\* zf.namelist() of the zip given as p-th argument
ZipMembers(p) == <<Path("z" \o ToString(p), "bin"), Path("z" \o ToString(p), "cue")>>

\* The audio tracks bchunk finds in the cue sheet of a disc, by track number.
AudioTracks(kind) == IF kind = "cuemulti" THEN <<2>> ELSE <<>>

\* 'TMP%d.cue' % (0 if not idx else idx[0]) and the like
Ordinal(i) == IF i = None THEN 0 ELSE i[1]
TmpCue(i) == Path("TMP" \o ToString(Ordinal(i)), "cue")
TmpCu2(i) == Path("TMP" \o ToString(Ordinal(i)), "cu2")
MergedCue(i) == Path("MB" \o ToString(Ordinal(i)), "cue")
MergedBin(i) == Path("MB" \o ToString(Ordinal(i)), "bin")
TrackWav(i, num) == Path("TRACK_" \o ToString(Ordinal(i)) \o "_0" \o ToString(num), "wav")
TrackAea(i, num) == Path("TRACK_" \o ToString(Ordinal(i)) \o "_0" \o ToString(num), "aea")
AeaKey(i) == IF i = None THEN 0 ELSE i[1] - 1

\* Bounds: the number of files on the command line.
MaxFiles == 3
FileLists == UNION {[1..n -> FileKinds] : n \in 0..MaxFiles}

\* The packaging targets asked for, in the order main runs them.
TargetOrder == <<"psp", "ps2", "ps3", "psio", "retroarch_bin", "retroarch_cue">>
TargetSets == {{"psp"}, {"ps2", "psio", "retroarch_bin", "retroarch_cue"}, {"ps3", "psio"},
               {"psp", "ps2", "ps3", "psio", "retroarch_bin", "retroarch_cue"}}

\* The input file a path's data derives from.
OriginOf(path) == content[path].origin

\* range(len(l)) stops at the first element a step cannot read: the number of
\* leading elements of oks that hold.
Lead(oks) ==
    IF \A k \in DOMAIN oks : oks[k] THEN Len(oks)
    ELSE (CHOOSE k \in DOMAIN oks : ~oks[k] /\ \A j \in 1..(k - 1) : oks[j]) - 1

\* os.unlink(f) for every f of temp_files (lines 779-787 and 1496-1504)
Drained == fs \ {temp_files[k] : k \in 1..Len(temp_files)}
Submitted == submitted \cup {temp_files[k] : k \in 1..Len(temp_files)}

\* p.add_img((f, toc)) with the TOC of cu2_files[i]; no image has a .ccd file
\* beside it, so get_toc_from_ccd finds nothing.
Pair(k) == [img |-> OriginOf(img_files[k]), toc |-> OriginOf(cu2_files[k])]
Pairs(n) == [k \in 1..n |-> Pair(k)]

\* 'ISO%02x01.iso' % idx and 'LCP%02x.bin' % idx, idx counted from 0
IsoOf(k) == Path("ISO0" \o ToString(k - 1) \o "01", "iso")
LcpBin(k) == Path("LCP0" \o ToString(k - 1), "bin")
LcpCue(k) == Path("LCP0" \o ToString(k - 1), "cue")

\* The names the multi-disc index files list and the files installed under them.
\* Lines 935-946 (the text of DISCS.TXT) and 958-961 (the VCD of iteration i).
DiscsTxtEntry(i) == "CD" \o ToString(i + 1) \o ".VCD"
VcdName_zero(i, n) == IF n > 1 THEN "CD" \o ToString(i) \o ".VCD" ELSE "title.VCD"
VcdName(i, n) == IF n > 1 THEN "CD" \o ToString(i + 1) \o ".VCD" ELSE "title.VCD"
\* Lines 391-399, 340-346 and 355-369
PsioName(i) == "psio/title-" \o ToString(i) \o ".img"
PsioCu2(i) == "psio/title-" \o ToString(i) \o ".cu2"
RbinName(i) == "rbin/title-" \o ToString(i) \o ".img"
RcueName(i) == "rcue/PSISO" \o ToString(i) \o ".CD"
RcueBin(i) == "rcue/PSISO" \o ToString(i) \o ".bin"

Builders == {"psp", "ps2", "ps3"}
IndexFiles == {"DISCS.TXT", "MULTIDISC.LST", "title.m3u", "PSISO.m3u"}

\* What create_ps3 registers for deletion, in order (lines 613-777).
Ps3Temps ==
    [k \in 1..18 |->
        Path(<<"ps3/PARAM.SFO", "ps3/ICON0.PNG", "ps3/PIC0.PNG", "ps3/PIC1.PNG", "ps3/PIC2.PNG",
               "ps3/PS3LOGO.DAT", "ps3/USRDIR/CONFIG", "ps3/USRDIR/CONTENT/EBOOT.PBP",
               "ps3/USRDIR/ISO.BIN.DAT", "ps3/USRDIR/SAVEDATA/ICON0.PNG",
               "ps3/USRDIR/SAVEDATA/SCEVMC0.VMP", "ps3/USRDIR/SAVEDATA/SCEVMC1.VMP",
               "ps3/USRDIR/SAVEDATA/PARAM.SFO", "ps3/USRDIR/ISO.BIN.EDAT",
               "ps3/USRDIR/CONTENT", "ps3/USRDIR/SAVEDATA", "ps3/USRDIR", "ps3">>[k], "")]

\* One pass of the loop of lines 1248-1351 over a file that is not taken for a
\* memory card: what it registers, writes and appends, and how it ends.
DiscPass(p, kind, have_binmerge, enc_ok) ==
    LET zip    == KindExt(kind) = "zip"
        \* 1260-1270
        temp1  == temp_files \o (IF zip THEN ZipMembers(p) ELSE <<>>)
        new1   == IF zip THEN (ZipMembers(p)[1] :> Holds(p, <<>>))
                                @@ (ZipMembers(p)[2] :> Holds(p, <<ZipMembers(p)[1]>>))
                  ELSE <<>>
        cue1   == IF zip THEN ZipMembers(p)[2] ELSE ArgPath(p, kind)
        \* 1272-1282
        isbin  == cue1.ext \in {"img", "bin"}
        temp2  == temp1 \o (IF isbin THEN <<TmpCue(idx)>> ELSE <<>>)
        new2   == IF isbin THEN (TmpCue(idx) :> Holds(p, <<cue1>>)) @@ new1 ELSE new1
        cue2   == IF isbin THEN TmpCue(idx) ELSE cue1
        \* 1288-1306
        imgs   == (new2 @@ content)[cue2].refs
        multi  == Len(imgs) > 1
        temp3  == temp2 \o (IF multi THEN <<MergedCue(idx), MergedBin(idx)>> ELSE <<>>)
        new3   == IF multi THEN (MergedCue(idx) :> Holds(p, <<MergedBin(idx)>>))
                                  @@ (MergedBin(idx) :> Holds(p, <<>>)) @@ new2
                  ELSE new2
        cue3   == IF multi THEN MergedCue(idx) ELSE cue2
        imgf   == IF multi THEN MergedBin(idx) ELSE imgs[1]
        \* 1308-1319
        beside == Path(cue3.base, "cu2")
        hascu2 == beside \in fs \cup DOMAIN new3
        cu2f   == IF hascu2 THEN beside ELSE TmpCu2(idx)
        temp4  == temp3 \o (IF hascu2 THEN <<>> ELSE <<cu2f>>)
        new4   == IF hascu2 THEN new3 ELSE (cu2f :> Holds(p, <<>>)) @@ new3
        \* 1325-1348
        towav  == targets \cap {"psp", "ps3"} # {}
        tracks == IF towav THEN AudioTracks(kind) ELSE <<>>
        wavs   == [k \in 1..Len(tracks) |-> TrackWav(idx, tracks[k])]
        aeas   == [k \in 1..Len(tracks) |-> TrackAea(idx, tracks[k])]
        temp5  == temp4 \o (IF tracks = <<>> THEN <<>> ELSE <<wavs[1], aeas[1]>>)
        new5   == IF tracks = <<>> THEN new4
                  ELSE (wavs[1] :> Holds(p, <<>>))
                          @@ (IF enc_ok THEN (aeas[1] :> Holds(p, <<>>)) ELSE <<>>) @@ new4
        aea5   == IF ~towav THEN aea_files
                  ELSE (AeaKey(idx) :> (IF tracks # <<>> /\ enc_ok THEN <<aeas[1]>> ELSE <<>>))
                          @@ aea_files
    IN  IF cue2.ext # "cue"
            THEN [end |-> "skipped", temp |-> temp2, new |-> new2, aea |-> aea_files]
        ELSE IF multi /\ ~have_binmerge
            THEN [end |-> "raised", temp |-> temp2, new |-> new2, aea |-> aea_files]
        ELSE [end |-> "accepted", temp |-> temp5, new |-> new5, aea |-> aea5,
              cue |-> cue3, cu2 |-> cu2f, img |-> imgf]

MainIdle ==
    /\ files = <<>> /\ targets = {} /\ install_mc = FALSE
    /\ file_i = 0 /\ idx = None /\ mc = None
    /\ cue_files = <<>> /\ cu2_files = <<>> /\ img_files = <<>> /\ mem_cards = <<>>
    /\ aea_files = <<>> /\ temp_files = <<>>
    /\ fs = {} /\ content = <<>>
    /\ main_pc = "idle"
    /\ submitted = {} /\ built = <<>> /\ index = <<>> /\ installed = <<>>

\* Lines 1223-1247: a run needs a file or --psp-install-memory-card, which is
\* given together with --psp-dir.
MainInit ==
    /\ files \in FileLists
    /\ targets \in TargetSets
    /\ install_mc \in BOOLEAN
    /\ files = <<>> => install_mc
    /\ install_mc => targets = {"psp"}
    /\ file_i = 0
    /\ idx = IF Len(files) > 1 THEN <<1, Len(files)>> ELSE None
    /\ mc = None
    /\ cue_files = <<>> /\ cu2_files = <<>> /\ img_files = <<>> /\ mem_cards = <<>>
    /\ aea_files = <<>> /\ temp_files = <<>>
    /\ content = GivenAll(files, Len(files))
    /\ fs = DOMAIN content
    /\ main_pc = "loop"
    /\ submitted = {}
    /\ built = [b \in Builders |-> <<>>]
    /\ index = [f \in IndexFiles |-> <<>>]
    /\ installed = <<>>

\* Lines 1248-1255: the file is read as a memory card.
MainCard ==
    /\ main_pc = "loop" /\ file_i < Len(files)
    /\ LET p == file_i + 1
           f == [name |-> ArgPath(p, files[p]), size |-> KindSize(files[p])]
       IN  /\ f.size <= 262144
           /\ check_memory_card(f) # None
           /\ mc' = check_memory_card(f)
           /\ mem_cards' = mem_cards \o mc'[1]
           /\ file_i' = p
    /\ UNCHANGED <<files, targets, install_mc, idx, cue_files, cu2_files, img_files,
                   aea_files, temp_files, fs, content, main_pc,
                   submitted, built, index, installed, notMain>>

\* Lines 1248-1351: the file is not read as a memory card.
MainDisc ==
    /\ main_pc = "loop" /\ file_i < Len(files)
    /\ LET p == file_i + 1
           f == [name |-> ArgPath(p, files[p]), size |-> KindSize(files[p])]
           called == f.size <= 262144
       IN  /\ ~(called /\ check_memory_card(f) # None)
           /\ mc' = IF called THEN check_memory_card(f) ELSE mc
           /\ \E have_binmerge \in BOOLEAN, enc_ok \in BOOLEAN :
                LET r == DiscPass(p, files[p], have_binmerge, enc_ok)
                IN  /\ temp_files' = r.temp
                    /\ content' = r.new @@ content
                    /\ fs' = fs \cup DOMAIN r.new
                    /\ aea_files' = r.aea
                    /\ IF r.end = "accepted"
                          THEN /\ img_files' = Append(img_files, r.img)
                               /\ cue_files' = Append(cue_files, r.cue)
                               /\ cu2_files' = Append(cu2_files, r.cu2)
                               /\ idx' = IF idx = None THEN None ELSE <<idx[1] + 1, idx[2]>>
                          ELSE UNCHANGED <<img_files, cue_files, cu2_files, idx>>
                    /\ main_pc' = IF r.end = "raised" THEN "raised" ELSE "loop"
                    /\ file_i' = IF r.end = "raised" THEN file_i ELSE p
    /\ UNCHANGED <<files, targets, install_mc, mem_cards,
                   submitted, built, index, installed, notMain>>

\* Lines 1353-1355: install_psp_mc(...); quit().
MainInstallMc ==
    /\ main_pc = "loop" /\ file_i = Len(files)
    /\ install_mc
    /\ \E savedata \in BOOLEAN :
          main_pc' = IF mem_cards # <<>> /\ ~savedata THEN "raised" ELSE "quit"
    /\ UNCHANGED <<files, targets, install_mc, file_i, idx, mc, cue_files, cu2_files,
                   img_files, mem_cards, aea_files, temp_files, fs, content,
                   submitted, built, index, installed, notMain>>

\* Lines 1357-1458: the game id (given, or read from the discs by
\* get_disc_ids), the title and the artwork, and the local copies LCPnn of the
\* discs of a libcrypt-protected game.
MainPrepare ==
    /\ main_pc = "loop" /\ file_i = Len(files)
    /\ ~install_mc
    /\ \E game_id \in BOOLEAN, known \in BOOLEAN, icon \in BOOLEAN,
          protected \in BOOLEAN, auto_libcrypt \in BOOLEAN :
        LET n     == Len(cue_files)
            toiso == n > 1 \/ ~game_id
            \* 999-1011, and disc_ids[0] of line 1374
            isos  == IF toiso THEN [k \in 1..n |-> IsoOf(k)] ELSE <<>>
            temp1 == temp_files \o isos
            early == (toiso /\ n = 0) \/ ~known
            temp2 == Append(temp1, Path("ICON0", "jpg"))
            patch == protected /\ (auto_libcrypt \/ targets \cap {"psp", "ps2", "psio"} # {})
            lcps  == [k \in 1..(2 * n) |-> IF k % 2 = 1 THEN LcpBin((k + 1) \div 2)
                                           ELSE LcpCue(k \div 2)]
            new   == [q \in {lcps[k] : k \in 1..(2 * n)} |->
                        LET k == CHOOSE j \in 1..n : q \in {LcpBin(j), LcpCue(j)}
                        IN  IF q.ext = "bin"
                                THEN Holds(OriginOf(content[cue_files[k]].refs[1]), <<>>)
                                ELSE Holds(OriginOf(cue_files[k]), <<LcpBin(k)>>)]
        IN  IF early
                THEN /\ temp_files' = temp1
                     /\ main_pc' = "raised"
                     /\ UNCHANGED <<cue_files, img_files, fs, content>>
            ELSE IF ~icon
                THEN /\ temp_files' = temp2
                     /\ main_pc' = "raised"
                     /\ UNCHANGED <<cue_files, img_files, fs, content>>
            ELSE IF patch
                THEN /\ temp_files' = temp2 \o lcps
                     /\ cue_files' = [k \in 1..n |-> LcpCue(k)]
                     /\ img_files' = [k \in 1..n |-> LcpBin(k)]
                     /\ content' = new @@ content
                     /\ fs' = fs \cup DOMAIN new
                     /\ main_pc' = "psp"
            ELSE /\ temp_files' = temp2
                 /\ main_pc' = "psp"
                 /\ UNCHANGED <<cue_files, img_files, fs, content>>
    /\ UNCHANGED <<files, targets, install_mc, file_i, idx, mc, cu2_files, mem_cards,
                   aea_files, submitted, built, index, installed, notMain>>

\* Lines 1460-1461, create_psp and generate_pbp: every disc is added to one
\* builder, then the EBOOT is written from the images.
MainPsp ==
    /\ main_pc = "psp"
    /\ IF "psp" \in targets
          THEN LET n == Len(img_files)
                   tocs == [k \in 1..n |-> cu2_files[k] \in fs]
                   imgs == [k \in 1..n |-> img_files[k] \in fs]
               IN  /\ built' = [built EXCEPT !["psp"] = Pairs(Lead(tocs))]
                   /\ main_pc' = IF Lead(tocs) = n /\ Lead(imgs) = n THEN "ps2" ELSE "raised"
          ELSE /\ main_pc' = "ps2"
               /\ UNCHANGED built
    /\ UNCHANGED <<files, targets, install_mc, file_i, idx, mc, cue_files, cu2_files,
                   img_files, mem_cards, aea_files, temp_files, fs, content,
                   submitted, index, installed, notMain>>

\* Lines 1462-1463, create_ps2: one builder for all discs; each pass adds a
\* disc, writes the VCD of that pass and the same DISCS.TXT beside it.
MainPs2 ==
    /\ main_pc = "ps2"
    /\ IF "ps2" \in targets
          THEN \E pops \in BOOLEAN :
               LET n == Len(img_files)
                   tocs == [k \in 1..n |-> cu2_files[k] \in fs]
                   both == [k \in 1..n |-> cu2_files[k] \in fs /\ img_files[k] \in fs]
                   done == Lead(both)
                   added == IF done < n /\ tocs[done + 1] THEN done + 1 ELSE done
                   text == [k \in 1..4 |-> IF k - 1 >= n THEN "" ELSE DiscsTxtEntry(k - 1)]
               IN  IF ~pops
                      THEN /\ main_pc' = "raised"
                           /\ UNCHANGED <<built, index, installed>>
                      ELSE /\ built' = [built EXCEPT !["ps2"] = Pairs(added)]
                           /\ installed' = [k \in {VcdName(i - 1, n) : i \in 1..done} |->
                                   OriginOf(img_files[CHOOSE i \in 1..done : VcdName(i - 1, n) = k])]
                                 @@ installed
                           /\ index' = IF n > 1 /\ done > 0
                                           THEN [index EXCEPT !["DISCS.TXT"] = text]
                                           ELSE index
                           /\ main_pc' = IF done = n THEN "ps3" ELSE "raised"
          ELSE /\ main_pc' = "ps3"
               /\ UNCHANGED <<built, index, installed>>
    /\ UNCHANGED <<files, targets, install_mc, file_i, idx, mc, cue_files, cu2_files,
                   img_files, mem_cards, aea_files, temp_files, fs, content,
                   submitted, notMain>>

\* Lines 1464-1465, create_ps3: the discs are added to one builder, the package
\* is written, and every file registered so far is deleted (lines 779-787).
MainPs3 ==
    /\ main_pc = "ps3"
    /\ IF "ps3" \in targets
          THEN LET n == Len(img_files)
                   tocs == [k \in 1..n |-> cu2_files[k] \in fs]
                   imgs == [k \in 1..n |-> img_files[k] \in fs]
               IN  /\ built' = [built EXCEPT !["ps3"] = Pairs(Lead(tocs))]
                   /\ IF Lead(tocs) = n /\ Lead(imgs) = n
                         THEN /\ temp_files' = temp_files \o Ps3Temps
                              /\ submitted' = submitted \cup {temp_files'[k] : k \in 1..Len(temp_files')}
                              /\ fs' = fs \ {temp_files'[k] : k \in 1..Len(temp_files')}
                              /\ main_pc' = "psio"
                         ELSE /\ main_pc' = "raised"
                              /\ UNCHANGED <<temp_files, submitted, fs>>
          ELSE /\ main_pc' = "psio"
               /\ UNCHANGED <<built, temp_files, submitted, fs>>
    /\ UNCHANGED <<files, targets, install_mc, file_i, idx, mc, cue_files, cu2_files,
                   img_files, mem_cards, aea_files, content, index, installed, notMain>>

\* An index file of one line per disc, each line written before the files it
\* names are copied: lines up to the first disc that cannot be read.
Listed(names, reads) ==
    [k \in 1..Min(Len(reads), Lead(reads) + 1) |-> names[k]]
Copied(names, from, reads) ==
    [k \in {names[i] : i \in 1..Lead(reads)} |->
        OriginOf(from[CHOOSE i \in 1..Lead(reads) : names[i] = k])]

\* Lines 1468-1469, create_psio: MULTIDISC.LST and a copy of every image and CU2.
MainPsio ==
    /\ main_pc = "psio"
    /\ IF "psio" \in targets
          THEN LET n == Len(img_files)
                   reads == [k \in 1..n |-> img_files[k] \in fs /\ cu2_files[k] \in fs]
               IN  /\ index' = [index EXCEPT !["MULTIDISC.LST"] = Listed([k \in 1..n |-> PsioName(k - 1)], reads)]
                   /\ installed' = Copied([k \in 1..n |-> PsioName(k - 1)], img_files, reads)
                                      @@ Copied([k \in 1..n |-> PsioCu2(k - 1)], cu2_files, reads) @@ installed
                   /\ main_pc' = IF Lead(reads) = n THEN "retroarch_bin" ELSE "raised"
          ELSE /\ main_pc' = "retroarch_bin"
               /\ UNCHANGED <<index, installed>>
    /\ UNCHANGED <<files, targets, install_mc, file_i, idx, mc, cue_files, cu2_files,
                   img_files, mem_cards, aea_files, temp_files, fs, content,
                   submitted, built, notMain>>

\* Lines 1470-1472, create_retroarch_bin: the .m3u playlist and a copy of every image.
MainRetroarchBin ==
    /\ main_pc = "retroarch_bin"
    /\ IF "retroarch_bin" \in targets
          THEN LET n == Len(img_files)
                   reads == [k \in 1..n |-> img_files[k] \in fs]
               IN  /\ index' = [index EXCEPT !["title.m3u"] = Listed([k \in 1..n |-> RbinName(k - 1)], reads)]
                   /\ installed' = Copied([k \in 1..n |-> RbinName(k - 1)], img_files, reads) @@ installed
                   /\ main_pc' = IF Lead(reads) = n THEN "retroarch_cue" ELSE "raised"
          ELSE /\ main_pc' = "retroarch_cue"
               /\ UNCHANGED <<index, installed>>
    /\ UNCHANGED <<files, targets, install_mc, file_i, idx, mc, cue_files, cu2_files,
                   img_files, mem_cards, aea_files, temp_files, fs, content,
                   submitted, built, notMain>>

\* Lines 1473-1475, create_retroarch_cue: PSISO.m3u, a rewritten cue sheet and a
\* copy of the image per disc.
MainRetroarchCue ==
    /\ main_pc = "retroarch_cue"
    /\ IF "retroarch_cue" \in targets
          THEN LET n == Len(cue_files)
                   reads == [k \in 1..n |-> cue_files[k] \in fs /\ img_files[k] \in fs]
               IN  /\ index' = [index EXCEPT !["PSISO.m3u"] = Listed([k \in 1..n |-> RcueName(k - 1)], reads)]
                   /\ installed' = Copied([k \in 1..n |-> RcueName(k - 1)], cue_files, reads)
                                      @@ Copied([k \in 1..n |-> RcueBin(k - 1)], img_files, reads) @@ installed
                   /\ main_pc' = IF Lead(reads) = n THEN "drain" ELSE "raised"
          ELSE /\ main_pc' = "drain"
               /\ UNCHANGED <<index, installed>>
    /\ UNCHANGED <<files, targets, install_mc, file_i, idx, mc, cue_files, cu2_files,
                   img_files, mem_cards, aea_files, temp_files, fs, content,
                   submitted, built, notMain>>

\* Lines 1496-1504: every registered file is deleted, and the run ends.
MainDrain ==
    /\ main_pc = "drain"
    /\ submitted' = Submitted
    /\ fs' = Drained
    /\ main_pc' = "exited"
    /\ UNCHANGED <<files, targets, install_mc, file_i, idx, mc, cue_files, cu2_files,
                   img_files, mem_cards, aea_files, temp_files, content,
                   built, index, installed, notMain>>

(***************************************************************************)
(* The libcrypt step of __main__ (lines 1420-1458) and the patch that      *)
(* apply_ppf chooses (lines 1015-1058).  A disc is given by what the       *)
(* registry `libcrypt` holds for its id: nothing, or an entry with a       *)
(* magic word that may carry a literal patch 'ppf' and an archive          *)
(* reference 'ppfzip'.  game_id is the id of the first disc.               *)
(***************************************************************************)
Entry(ppf, ppfzip) == [ppf |-> ppf, ppfzip |-> ppfzip]
RegistryEntries == {None} \cup {Some(Entry(a, b)) : a \in BOOLEAN, b \in BOOLEAN}

\* What requests.get may end in: a response of status 200, another status, or
\* no response at all (requests raises ConnectionError).
FetchOutcomes == {"200", "404", "unreachable"}

\* Lines 1424-1434: patch_libcrypt.
PatchDecision_always(a) == TRUE
PatchDecision(a) ==
    \/ a.auto_libcrypt
    \/ ("ps3" \in a.targets /\ a.ps3_libcrypt)
    \/ a.targets \cap {"psp", "ps2", "psio"} # {}

\* Lines 1015-1058: the patch one call of apply_ppf runs for a registry entry:
\* which of the two patchers, what it wrote to the image, how the request for
\* the archive ended ("no" when none was made), what was registered in
\* temp_files, and whether the call raised.
Call(ran, wrote, fetched, temp, raised) ==
    [ran |-> ran, wrote |-> wrote, fetched |-> fetched, temp |-> temp, raised |-> raised]
apply_ppf_zipfirst(entry, auto_libcrypt, fetch) ==
    IF auto_libcrypt THEN Call("auto", "scan", "no", <<>>, FALSE)
    ELSE IF entry.ppfzip
        THEN IF fetch = "200" THEN Call("known", "ppfzip", fetch, <<"ppfzip[1]">>, FALSE)
             ELSE Call("known", "none", fetch, <<>>, FALSE)
    ELSE IF entry.ppf THEN Call("known", "ppf", "no", <<>>, FALSE)
    ELSE Call("known", "none", "no", <<>>, FALSE)
apply_ppf(entry, auto_libcrypt, fetch) ==
    IF auto_libcrypt THEN Call("auto", "scan", "no", <<>>, FALSE)
    ELSE IF entry.ppf THEN Call("known", "ppf", "no", <<>>, FALSE)
    ELSE IF ~entry.ppfzip THEN Call("known", "none", "no", <<>>, FALSE)
    ELSE IF fetch = "unreachable" THEN Call("known", "none", fetch, <<>>, TRUE)
    ELSE IF fetch # "200" THEN Call("known", "none", fetch, <<>>, FALSE)
    ELSE Call("known", "ppfzip", fetch, <<"ppfzip[1]">>, FALSE)

\* Bounds: the discs of a title.
MaxTitleDiscs == 2
TitleDiscs == UNION {[1..n -> RegistryEntries] : n \in 1..MaxTitleDiscs}
LcTargetSets == {{"ps3"}, {"psp"}, {"retroarch_bin"}, {"ps3", "psio"}}
LcArgs == [auto_libcrypt : BOOLEAN, ps3_libcrypt : BOOLEAN, targets : LcTargetSets]

LcIdle ==
    /\ lc_discs = <<>> /\ lc_args = None /\ lc_magic_word = <<>>
    /\ lc_img_files = <<>> /\ lc_calls = <<>> /\ lc_temp_files = <<>>
    /\ lc_idx = 0 /\ lc_pc = "idle"

LcInit ==
    /\ lc_discs \in TitleDiscs
    /\ lc_args \in {Some(a) : a \in LcArgs}
    /\ lc_magic_word = <<>>
    /\ lc_img_files = [k \in 1..Len(lc_discs) |-> "given"]
    /\ lc_calls = [k \in 1..Len(lc_discs) |-> <<>>]
    /\ lc_temp_files = <<>>
    /\ lc_idx = 0
    /\ lc_pc = "lookup"

\* Lines 1420-1423: magic_word of every disc, if the game id is registered.
\* libcrypt[disc_ids[idx]] raises KeyError for an id that is not.
LcLookup ==
    /\ lc_pc = "lookup"
    /\ IF lc_discs[1] = None
          THEN lc_pc' = "packaging" /\ UNCHANGED lc_magic_word
       ELSE IF \E k \in 1..Len(lc_discs) : lc_discs[k] = None
          THEN /\ lc_pc' = "raised"
               /\ lc_magic_word' =
                    [k \in 1..((CHOOSE j \in 1..Len(lc_discs) :
                                    lc_discs[j] = None
                                    /\ \A i \in 1..(j - 1) : lc_discs[i] # None) - 1)
                        |-> "magic_word"]
       ELSE /\ lc_pc' = "decide"
            /\ lc_magic_word' = [k \in 1..Len(lc_discs) |-> "magic_word"]
    /\ UNCHANGED <<lc_discs, lc_args, lc_img_files, lc_calls, lc_temp_files, lc_idx, notLc>>

\* Lines 1424-1442.
LcDecide ==
    /\ lc_pc = "decide"
    /\ lc_pc' = IF PatchDecision(lc_args[1]) THEN "copy" ELSE "packaging"
    /\ UNCHANGED <<lc_discs, lc_args, lc_magic_word, lc_img_files, lc_calls,
                   lc_temp_files, lc_idx, notLc>>

\* Lines 1445-1458, one pass: the disc is copied to LCPnn.bin/.cue, the copies
\* are registered and take the disc's place, and apply_ppf runs on the copy.
LcDisc ==
    /\ lc_pc = "copy"
    /\ \E fetch \in FetchOutcomes :
        LET k == lc_idx + 1
            c == apply_ppf(lc_discs[k][1], lc_args[1].auto_libcrypt, fetch)
        IN  /\ lc_temp_files' = lc_temp_files \o <<"LCP.bin", "LCP.cue">> \o c.temp
            /\ lc_img_files' = [lc_img_files EXCEPT ![k] = "LCP.bin"]
            /\ lc_calls' = [lc_calls EXCEPT ![k] = Append(@, c)]
            /\ lc_idx' = IF c.raised THEN lc_idx ELSE k
            /\ lc_pc' = IF c.raised THEN "raised"
                        ELSE IF k = Len(lc_discs) THEN "packaging" ELSE "copy"
    /\ UNCHANGED <<lc_discs, lc_args, lc_magic_word, notLc>>

(***************************************************************************)
(* create_ps2 (lines 917-986) and the disc loop of create_ps3 (lines       *)
(* 552-563) on a title of n discs.  For each disc it is given whether      *)
(* p.get_toc_from_ccd finds a TOC for its image.  The builder p is the     *)
(* sequence of (disc, TOC source) pairs added to it so far.                *)
(***************************************************************************)
\* Lines 950-953 (and 466-470): the CCD-derived TOC if there is one, else the
\* TOC made from the CU2.
TocSource(ccd) == IF ccd THEN "ccd" ELSE "cu2"
\* Line 555 as it would be without the comment sign.
Ps3TocSource_ccd(ccd) == IF ccd THEN "ccd" ELSE "cu2"
\* Lines 554-558: toc = None, so always the TOC made from the CU2.
Ps3TocSource(ccd) == "cu2"

Added(disc, source) == [disc |-> disc, toc |-> source]

\* Lines 935-946: the text of DISCS.TXT for n discs, one line per pass of
\* range(4); None when there is a single disc.
DiscsTxtLines == 4
DiscsTxt_all(n) ==
    IF n > 1 THEN Some([k \in 1..n |-> DiscsTxtEntry(k - 1)]) ELSE None
DiscsTxt(n) ==
    IF n > 1
        THEN Some([k \in 1..DiscsTxtLines |-> IF k - 1 >= n THEN "" ELSE DiscsTxtEntry(k - 1)])
        ELSE None

\* Bounds: the discs of the title packaged.
MaxBuildDiscs == 5
CcdLists == UNION {[1..n -> BOOLEAN] : n \in 0..MaxBuildDiscs}

BdIdle ==
    /\ bd_target = "none" /\ bd_ccd = <<>> /\ bd_p = <<>> /\ bd_i = 0
    /\ bd_discs_txt = None /\ bd_vcd = <<>> /\ bd_written = <<>> /\ bd_pc = "idle"

BdInit ==
    /\ bd_target \in {"ps2", "ps3"}
    /\ bd_ccd \in CcdLists
    /\ bd_p = <<>>
    /\ bd_i = 0
    /\ bd_discs_txt = None
    /\ bd_vcd = <<>>
    /\ bd_written = <<>>
    /\ bd_pc = "start"

\* Lines 917-946: the POPS and ART directories must exist; one builder is
\* made for the whole title and the text of DISCS.TXT is put together.
Ps2Begin ==
    /\ bd_pc = "start" /\ bd_target = "ps2"
    /\ \E dirs \in BOOLEAN :
          IF ~dirs THEN bd_pc' = "raised" /\ UNCHANGED bd_discs_txt
          ELSE /\ bd_discs_txt' = DiscsTxt(Len(bd_ccd))
               /\ bd_pc' = IF Len(bd_ccd) = 0 THEN "done" ELSE "loop"
    /\ UNCHANGED <<bd_target, bd_ccd, bd_p, bd_i, bd_vcd, bd_written, notBd>>

\* Lines 948-981, one pass: the disc is added to the builder, p.create_vcd()
\* writes the VCD of this pass from the builder, and DISCS.TXT is written
\* beside it.
Ps2Disc ==
    /\ bd_pc = "loop" /\ bd_target = "ps2"
    /\ LET n == Len(bd_ccd)
           vcd == VcdName(bd_i, n)
       IN  /\ bd_p' = Append(bd_p, Added(bd_i + 1, TocSource(bd_ccd[bd_i + 1])))
           /\ bd_vcd' = (vcd :> bd_p') @@ bd_vcd
           /\ bd_written' = IF bd_discs_txt # None
                               THEN (vcd :> bd_discs_txt[1]) @@ bd_written
                               ELSE bd_written
           /\ bd_i' = bd_i + 1
           /\ bd_pc' = IF bd_i + 1 = n THEN "done" ELSE "loop"
    /\ UNCHANGED <<bd_target, bd_ccd, bd_discs_txt, notBd>>

\* Lines 541-551: the builder of create_ps3.
Ps3Begin ==
    /\ bd_pc = "start" /\ bd_target = "ps3"
    /\ bd_pc' = IF Len(bd_ccd) = 0 THEN "done" ELSE "loop"
    /\ UNCHANGED <<bd_target, bd_ccd, bd_p, bd_i, bd_discs_txt, bd_vcd, bd_written, notBd>>

\* Lines 552-563, one pass.
Ps3Disc ==
    /\ bd_pc = "loop" /\ bd_target = "ps3"
    /\ bd_p' = Append(bd_p, Added(bd_i + 1, Ps3TocSource(bd_ccd[bd_i + 1])))
    /\ bd_i' = bd_i + 1
    /\ bd_pc' = IF bd_i + 1 = Len(bd_ccd) THEN "done" ELSE "loop"
    /\ UNCHANGED <<bd_target, bd_ccd, bd_discs_txt, bd_vcd, bd_written, notBd>>

(***************************************************************************)
(* create_blank_mc (lines 877-914).  A file is its size, the bytes written *)
(* to it by offset, and the byte every other offset below its size holds.  *)
(***************************************************************************)
File(size, fill, data) == [size |-> size, fill |-> fill, data |-> data]
ByteAt(f, off) == IF off \in DOMAIN f.data THEN f.data[off] ELSE f.fill

\* open(mc, "wb"): the file is created, or cut to nothing if it exists.
Truncated_keep(prior) == IF prior = None THEN File(0, 0, <<>>) ELSE prior[1]
Truncated(prior) == File(0, 0, <<>>)

\* f.seek(pos); f.write(b): bytes between the old end and pos read as zero.
SeekWrite(f, pos, b) ==
    File(IF pos + Len(b) > f.size THEN pos + Len(b) ELSE f.size,
         f.fill,
         [o \in pos..(pos + Len(b) - 1) |-> b[o - pos + 1]] @@ f.data)

\* bytes(n): n zero bytes.
Zeros(n) == [k \in 1..n |-> 0]

\* range(a, b, step) as a sequence
Range(a, b, step) == [k \in 1..((b - a + step - 1) \div step) |-> a + (k - 1) * step]

\* The buffers of lines 888-891, 895-898, 903-906 and 910-911.
HeaderFrame ==
    Zeros(15) \o <<14, 160>> \o Zeros(7) \o <<255, 255>> \o Zeros(6)
DirectoryFrame ==
    Zeros(15) \o <<160, 160>> \o Zeros(7) \o <<255, 255>> \o Zeros(6)
LastDirectoryFrame ==
    Zeros(15) \o <<160, 255, 255, 255, 255>> \o Zeros(4) \o <<255, 255>> \o Zeros(6)
BrokenSectorFrame ==
    <<255, 255, 255, 255, 0, 0, 0, 0, 255, 255>> \o Zeros(6)

\* The seeks and writes of create_blank_mc, in order.
At(pos, b) == [pos |-> pos, bytes |-> b]
BlankWrites ==
    <<At(131071, Zeros(1)), At(0, <<77, 67>>), At(112, HeaderFrame)>>
    \o [k \in 1..Len(Range(240, 1920, 128)) |-> At(Range(240, 1920, 128)[k], DirectoryFrame)]
    \o <<At(2032, LastDirectoryFrame)>>
    \o [k \in 1..Len(Range(2176, 4496, 128)) |-> At(Range(2176, 4496, 128)[k], BrokenSectorFrame)]

\* What may be at the path before the call: nothing, or a file of some size
\* whose bytes are all 0xff.
PriorFiles == {None} \cup {Some(File(s, 255, <<>>)) : s \in {0, 1, 4496, 131072, 200000}}

BmIdle == bm_prior = None /\ bm_file = None /\ bm_step = 0 /\ bm_pc = "idle"

BmInit ==
    /\ bm_prior \in PriorFiles
    /\ bm_file = bm_prior
    /\ bm_step = 0
    /\ bm_pc = "open"

\* Line 878.
BmOpen ==
    /\ bm_pc = "open"
    /\ bm_file' = Some(Truncated(bm_prior))
    /\ bm_pc' = "write"
    /\ UNCHANGED <<bm_prior, bm_step, notBm>>

\* Lines 879-914, one write.
BmWrite ==
    /\ bm_pc = "write" /\ bm_step < Len(BlankWrites)
    /\ bm_file' = Some(SeekWrite(bm_file[1], BlankWrites[bm_step + 1].pos,
                                 BlankWrites[bm_step + 1].bytes))
    /\ bm_step' = bm_step + 1
    /\ UNCHANGED <<bm_prior, bm_pc, notBm>>

\* The end of the with block.
BmClose ==
    /\ bm_pc = "write" /\ bm_step = Len(BlankWrites)
    /\ bm_pc' = "closed"
    /\ UNCHANGED <<bm_prior, bm_file, bm_step, notBm>>

(***************************************************************************)
(* The game id of the run (lines 1357-1377).  An id is a sequence of       *)
(* characters; the argument, the GAME_ID file and the images each give one.*)
(***************************************************************************)
\* str.upper(), character by character
UpperChar(c) == CASE c = "a" -> "A" [] c = "b" -> "B" [] c = "c" -> "C" [] OTHER -> c
Upper(s) == [k \in 1..Len(s) |-> UpperChar(s[k])]

\* d.read(9): at most the first nine characters
Read9(s) == SubSeq(s, 1, IF Len(s) < 9 THEN Len(s) ELSE 9)

\* `if x:` / `if not x:` on a string or None
Truthy(x) == x # None /\ x[1] # <<>>

GameIdArgs == {None, Some(<<>>), Some(<<"A", "1">>), Some(<<"a", "1">>), Some(<<"b", "2">>)}
GameIdFiles ==
    {None, Some(<<>>), Some(<<"b", "2">>),
     Some(<<"c", "3", "4", "5", "6", "7", "8", "9", "0", "1", "2">>)}
ImageIds == {<<"A", "1">>, <<"C", "3">>}
MaxIdDiscs == 2
ImageIdLists == UNION {[1..n -> ImageIds] : n \in 1..MaxIdDiscs}

GiIdle ==
    /\ gi_arg = None /\ gi_file = None /\ gi_images = <<>>
    /\ gi_game_id = None /\ gi_disc_ids = None /\ gi_pc = "idle"

GiInit ==
    /\ gi_arg \in GameIdArgs
    /\ gi_file \in GameIdFiles
    /\ gi_images \in ImageIdLists
    /\ gi_game_id = None
    /\ gi_disc_ids = None
    /\ gi_pc = "arg"

\* Lines 1357-1359.
GiArgument ==
    /\ gi_pc = "arg"
    /\ gi_game_id' = IF Truthy(gi_arg) THEN gi_arg ELSE None
    /\ gi_pc' = "file"
    /\ UNCHANGED <<gi_arg, gi_file, gi_images, gi_disc_ids, notGi>>

\* Lines 1360-1365: a missing file raises inside the try and changes nothing.
GiGameIdFile ==
    /\ gi_pc = "file"
    /\ gi_game_id' = IF ~Truthy(gi_game_id) /\ gi_file # None
                     THEN Some(Read9(gi_file[1]))
                     ELSE gi_game_id
    /\ gi_pc' = "discs"
    /\ UNCHANGED <<gi_arg, gi_file, gi_images, gi_disc_ids, notGi>>

\* Lines 1367-1374: get_disc_ids reads the id of every image.
GiDiscIds ==
    /\ gi_pc = "discs"
    /\ IF Len(gi_images) > 1 \/ ~Truthy(gi_game_id)
       THEN /\ gi_disc_ids' = Some(gi_images)
            /\ gi_game_id' = Some(gi_images[1])
       ELSE UNCHANGED <<gi_disc_ids, gi_game_id>>
    /\ gi_pc' = "default"
    /\ UNCHANGED <<gi_arg, gi_file, gi_images, notGi>>

\* Lines 1375-1376.
GiDefault ==
    /\ gi_pc = "default"
    /\ gi_disc_ids' = IF gi_disc_ids = None \/ gi_disc_ids[1] = <<>>
                      THEN Some(<<gi_game_id[1]>>)
                      ELSE gi_disc_ids
    /\ gi_pc' = "upper"
    /\ UNCHANGED <<gi_arg, gi_file, gi_images, gi_game_id, notGi>>

\* Line 1377.
GiUpper ==
    /\ gi_pc = "upper"
    /\ gi_game_id' = Some(Upper(gi_game_id[1]))
    /\ gi_pc' = "done"
    /\ UNCHANGED <<gi_arg, gi_file, gi_images, gi_disc_ids, notGi>>

(***************************************************************************)
(* apply_ppf with auto_libcrypt set, called twice on one image with the    *)
(* same magic word: rs_img1 is the image as the first call left it.        *)
(***************************************************************************)
RsIdle ==
    /\ rs_img0 = <<>> /\ rs_img1 = <<>> /\ rs_img = <<>> /\ rs_pos = 0
    /\ rs_word = 0 /\ rs_run = 0 /\ rs_pc = "idle"

RsInit ==
    /\ rs_img0 \in ImagesOf(MaxPieces)
    /\ rs_img = rs_img0
    /\ rs_img1 = <<>>
    /\ rs_pos = 0
    /\ rs_word \in MagicWords
    /\ rs_run = 1
    /\ rs_pc = "scan"

\* Lines 1021-1031 with a window read.
RsWindow ==
    /\ rs_pc = "scan"
    /\ LET off == rs_pos
           b == ReadAt(rs_img, off, WindowSize)
           p == Patched(b, rs_word)
       IN  /\ b # <<>>
           /\ rs_img' = IF p = None THEN rs_img ELSE WriteAt(rs_img, off, p[1])
           /\ rs_pos' = off + Len(b)
    /\ UNCHANGED <<rs_img0, rs_img1, rs_word, rs_run, rs_pc, notRs>>

\* Lines 1023-1024 and 1032: nothing left to read, the call returns.
RsReturn ==
    /\ rs_pc = "scan"
    /\ ReadAt(rs_img, rs_pos, WindowSize) = <<>>
    /\ rs_img1' = IF rs_run = 1 THEN rs_img ELSE rs_img1
    /\ rs_pc' = IF rs_run = 1 THEN "between" ELSE "returned"
    /\ UNCHANGED <<rs_img0, rs_img, rs_pos, rs_word, rs_run, notRs>>

\* Line 1019: the image is opened again, at position 0.
RsAgain ==
    /\ rs_pc = "between"
    /\ rs_pos' = 0
    /\ rs_run' = 2
    /\ rs_pc' = "scan"
    /\ UNCHANGED <<rs_img0, rs_img1, rs_img, rs_word, notRs>>

(***************************************************************************)
(* install_psp_mc (lines 790-832).  A slot is 0 or 1.  The SAVEDATA file of *)
(* a slot holds nothing, a card given on the command line, the card staged *)
(* in the game directory by create_psp (lines 512-518), or what an         *)
(* interrupted write left.  A write ends "ok", fails at open() with        *)
(* nothing touched ("no_open"), or fails after open(..., 'wb') has cut the *)
(* file ("cut").                                                           *)
(***************************************************************************)
Slots == {0, 1}
GivenCard(slot) == [from |-> "mem_cards", slot |-> slot]
StagedCard(slot) == [from |-> "PSP/GAME", slot |-> slot]
CutFile == [from |-> "cut", slot |-> 0]
WriteOutcomes == {"ok", "no_open", "cut"}

\* Lines 791-797 and 798-804 for one slot: the card of the command line is
\* written, and any failure is raised again as an Exception.
InstallGiven(save, slot, outcome) ==
    [save   |-> IF outcome = "ok" THEN [save EXCEPT ![slot] = Some(GivenCard(slot))]
                ELSE IF outcome = "cut" THEN [save EXCEPT ![slot] = Some(CutFile)]
                ELSE save,
     raised |-> outcome # "ok"]

\* The staged card removed whatever the copy did.
InstallStaged_move(game, save, failed, slot, outcome) ==
    [game   |-> game \ {slot},
     save   |-> IF outcome = "ok" THEN [save EXCEPT ![slot] = Some(StagedCard(slot))]
                ELSE IF outcome = "cut" THEN [save EXCEPT ![slot] = Some(CutFile)]
                ELSE save,
     failed |-> IF outcome = "ok" THEN failed ELSE failed \cup {slot}]

\* Lines 806-817 and 819-830 for one slot: os.stat of the staged card; if it is
\* there, copy_file to SAVEDATA and then os.unlink; a failure of the copy is
\* printed and the unlink is not reached.
InstallStaged(game, save, failed, slot, outcome) ==
    IF slot \notin game THEN [game |-> game, save |-> save, failed |-> failed]
    ELSE IF outcome = "ok"
        THEN [game |-> game \ {slot},
              save |-> [save EXCEPT ![slot] = Some(StagedCard(slot))],
              failed |-> failed]
    ELSE [game   |-> game,
          save   |-> IF outcome = "cut" THEN [save EXCEPT ![slot] = Some(CutFile)] ELSE save,
          failed |-> failed \cup {slot}]

\* Without the SAVEDATA directory no file in it can be opened.
Possible(savedata) == IF savedata THEN WriteOutcomes ELSE {"no_open"}

ImIdle ==
    /\ im_cards = 0 /\ im_staged = {} /\ im_savedata = FALSE
    /\ im_game = {} /\ im_save = <<>> /\ im_failed = {} /\ im_pc = "idle"

\* The call of line 1354: up to two cards read from the command line, the
\* cards staged by an earlier run, and the SAVEDATA files as they are.
ImInit ==
    /\ im_cards \in 0..2
    /\ im_staged \in SUBSET Slots
    /\ im_savedata \in BOOLEAN
    /\ im_game = im_staged
    /\ im_save \in [Slots -> {None, Some([from |-> "game", slot |-> 0])}]
    /\ ~im_savedata => im_save = [s \in Slots |-> None]
    /\ im_failed = {}
    /\ im_pc = "given0"

\* Lines 791-797 (slot 0) and 798-804 (slot 1).
ImGiven ==
    /\ im_pc \in {"given0", "given1"}
    /\ LET slot == IF im_pc = "given0" THEN 0 ELSE 1
       IN  IF im_cards >= slot + 1
              THEN \E outcome \in Possible(im_savedata) :
                     LET r == InstallGiven(im_save, slot, outcome)
                     IN  /\ im_save' = r.save
                         /\ im_pc' = IF r.raised THEN "raised"
                                     ELSE IF slot = 0 THEN "given1" ELSE "staged0"
              ELSE /\ im_pc' = IF slot = 0 THEN "given1" ELSE "staged0"
                   /\ UNCHANGED im_save
    /\ UNCHANGED <<im_cards, im_staged, im_savedata, im_game, im_failed, notIm>>

\* Lines 806-817 (slot 0) and 819-830 (slot 1).
ImStaged ==
    /\ im_pc \in {"staged0", "staged1"}
    /\ LET slot == IF im_pc = "staged0" THEN 0 ELSE 1
       IN  \E outcome \in Possible(im_savedata) :
             LET r == InstallStaged(im_game, im_save, im_failed, slot, outcome)
             IN  /\ im_game' = r.game
                 /\ im_save' = r.save
                 /\ im_failed' = r.failed
                 /\ im_pc' = IF slot = 0 THEN "staged1" ELSE "sync"
    /\ UNCHANGED <<im_cards, im_staged, im_savedata, notIm>>

\* Lines 831-834: os.sync(), whose failure is ignored.
ImSync ==
    /\ im_pc = "sync"
    /\ im_pc' = "done"
    /\ UNCHANGED <<im_cards, im_staged, im_savedata, im_game, im_save, im_failed, notIm>>

(***************************************************************************)
(* create_ps3 and its staging directory <subdir><game_id> (lines 562-787). *)
(* A path below the staging directory is the sequence of its names; the    *)
(* staging directory itself is the empty sequence.                         *)
(***************************************************************************)
StageDir == <<>>
StageDirs == {StageDir, <<"USRDIR">>, <<"USRDIR", "CONTENT">>, <<"USRDIR", "SAVEDATA">>}
Parent(p) == SubSeq(p, 1, Len(p) - 1)
Within(dir, name) == Append(dir, name)
CardName(k) == "SCEVMC" \o ToString(k) \o ".VMP"

\* What each part of create_ps3 creates, and what it appends to temp_files, in
\* order.
\* Lines 562-615.
StageTop(snd0) ==
    [make |-> {StageDir, <<"PARAM.SFO">>} \cup (IF snd0 THEN {<<"SND0.AT3">>} ELSE {}),
     reg  |-> <<<<"PARAM.SFO">>>>]
\* Lines 617-640.
StageArtwork ==
    [make |-> {<<"ICON0.PNG">>, <<"PIC0.PNG">>, <<"PIC1.PNG">>, <<"PIC2.PNG">>, <<"PS3LOGO.DAT">>},
     reg  |-> <<<<"ICON0.PNG">>, <<"PIC0.PNG">>, <<"PIC1.PNG">>, <<"PIC2.PNG">>,
                <<"PS3LOGO.DAT">>>>]
\* Lines 642-661.
StageUsrdir ==
    [make |-> {<<"USRDIR">>, <<"USRDIR", "CONFIG">>},
     reg  |-> <<<<"USRDIR", "CONFIG">>>>]
\* Lines 664-689.
StageContent ==
    [make |-> {<<"USRDIR", "CONTENT">>, <<"USRDIR", "CONTENT", "EBOOT.PBP">>,
               <<"USRDIR", "ISO.BIN.DAT">>},
     reg  |-> <<<<"USRDIR", "CONTENT", "EBOOT.PBP">>, <<"USRDIR", "ISO.BIN.DAT">>>>]
\* Lines 694-759: a blank card for each of the two slots not given, one file
\* per card given.
StageSavedata(cards) ==
    LET dir == <<"USRDIR", "SAVEDATA">>
    IN  [make |-> {dir, Within(dir, "ICON0.PNG"), Within(dir, "PARAM.SFO")}
                    \cup (IF cards < 1 THEN {Within(dir, CardName(0))} ELSE {})
                    \cup (IF cards < 2 THEN {Within(dir, CardName(1))} ELSE {})
                    \cup {Within(dir, CardName(k - 1)) : k \in 1..cards},
         reg  |-> <<Within(dir, "ICON0.PNG"), Within(dir, CardName(0)),
                    Within(dir, CardName(1)), Within(dir, "PARAM.SFO")>>]
\* Lines 761-768.
StageEdat ==
    [make |-> {<<"USRDIR", "ISO.BIN.EDAT">>},
     reg  |-> <<<<"USRDIR", "ISO.BIN.EDAT">>>>]
\* Lines 770-777.
StagePkg ==
    [make |-> {},
     reg  |-> <<<<"USRDIR", "CONTENT">>, <<"USRDIR", "SAVEDATA">>, <<"USRDIR">>, StageDir>>]

StageParts(snd0, cards) ==
    <<StageTop(snd0), StageArtwork, StageUsrdir, StageContent, StageSavedata(cards),
      StageEdat, StagePkg>>

\* Lines 781-787 for one entry: os.unlink removes a file; for a directory it
\* raises and os.rmdir removes the directory if it is empty.
Deleted(tree, f) ==
    IF f \notin tree THEN tree
    ELSE IF f \notin StageDirs THEN tree \ {f}
    ELSE IF \E q \in tree : q # StageDir /\ Parent(q) = f THEN tree
    ELSE tree \ {f}

MaxCards == 3

StIdle ==
    /\ st_snd0 = FALSE /\ st_cards = 0 /\ st_fs = {} /\ st_temp = <<>>
    /\ st_step = 0 /\ st_pc = "idle"

StInit ==
    /\ st_snd0 \in BOOLEAN
    /\ st_cards \in 0..MaxCards
    /\ st_fs = {}
    /\ st_temp = <<>>
    /\ st_step = 0
    /\ st_pc = "build"

\* Lines 562-777, one part.
StBuild ==
    /\ st_pc = "build"
    /\ LET parts == StageParts(st_snd0, st_cards)
           part  == parts[st_step + 1]
       IN  /\ st_fs' = st_fs \cup part.make
           /\ st_temp' = st_temp \o part.reg
           /\ st_step' = IF st_step + 1 = Len(parts) THEN 0 ELSE st_step + 1
           /\ st_pc' = IF st_step + 1 = Len(parts) THEN "drain" ELSE "build"
    /\ UNCHANGED <<st_snd0, st_cards, notSt>>

\* Lines 779-787, one entry of temp_files.
StDelete ==
    /\ st_pc = "drain" /\ st_step < Len(st_temp)
    /\ st_fs' = Deleted(st_fs, st_temp[st_step + 1])
    /\ st_step' = st_step + 1
    /\ UNCHANGED <<st_snd0, st_cards, st_temp, st_pc, notSt>>

\* The end of create_ps3.
StReturn ==
    /\ st_pc = "drain" /\ st_step = Len(st_temp)
    /\ st_pc' = "returned"
    /\ UNCHANGED <<st_snd0, st_cards, st_fs, st_temp, st_step, notSt>>

(***************************************************************************)
(* Specifications                                                          *)
(***************************************************************************)
BcdSpecInit == BcdInit /\ TocIdle /\ MwIdle /\ ApIdle /\ CardIdle /\ MainIdle /\ LcIdle /\ BdIdle /\ BmIdle /\ GiIdle /\ RsIdle /\ ImIdle /\ StIdle
BcdSpecNext == BcdEncode
BcdSpec == BcdSpecInit /\ [][BcdSpecNext]_vars

TocSpecInit == TocInit /\ BcdIdle /\ MwIdle /\ ApIdle /\ CardIdle /\ MainIdle /\ LcIdle /\ BdIdle /\ BmIdle /\ GiIdle /\ RsIdle /\ ImIdle /\ StIdle
TocSpecNext == TocScan \/ TocHeader \/ TocSkipLine \/ TocTrack \/ TocReturn
TocSpec == TocSpecInit /\ [][TocSpecNext]_vars


MagicSpecInit == MwInit /\ BcdIdle /\ TocIdle /\ ApIdle /\ CardIdle /\ MainIdle /\ LcIdle /\ BdIdle /\ BmIdle /\ GiIdle /\ RsIdle /\ ImIdle /\ StIdle
MagicSpecNext == MwGet \/ MwScan
MagicSpec == MagicSpecInit /\ [][MagicSpecNext]_vars

PatchSpecInit == ApInit /\ BcdIdle /\ TocIdle /\ MwIdle /\ CardIdle /\ MainIdle /\ LcIdle /\ BdIdle /\ BmIdle /\ GiIdle /\ RsIdle /\ ImIdle /\ StIdle
PatchSpecNext == ApWindow \/ ApEnd
PatchSpec == PatchSpecInit /\ [][PatchSpecNext]_vars

CardSpecInit == CardInit /\ BcdIdle /\ TocIdle /\ MwIdle /\ ApIdle /\ MainIdle /\ LcIdle /\ BdIdle /\ BmIdle /\ GiIdle /\ RsIdle /\ ImIdle /\ StIdle
CardSpecNext == CardCheck
CardSpec == CardSpecInit /\ [][CardSpecNext]_vars

MainSpecInit == MainInit /\ BcdIdle /\ TocIdle /\ MwIdle /\ ApIdle /\ CardIdle /\ LcIdle /\ BdIdle /\ BmIdle /\ GiIdle /\ RsIdle /\ ImIdle /\ StIdle
MainSpecNext ==
    \/ MainCard \/ MainDisc \/ MainInstallMc \/ MainPrepare
    \/ MainPsp \/ MainPs2 \/ MainPs3 \/ MainPsio
    \/ MainRetroarchBin \/ MainRetroarchCue \/ MainDrain
MainSpec == MainSpecInit /\ [][MainSpecNext]_vars

LcSpecInit == LcInit /\ BcdIdle /\ TocIdle /\ MwIdle /\ ApIdle /\ CardIdle /\ MainIdle /\ BdIdle /\ BmIdle /\ GiIdle /\ RsIdle /\ ImIdle /\ StIdle
LcSpecNext == LcLookup \/ LcDecide \/ LcDisc
LcSpec == LcSpecInit /\ [][LcSpecNext]_vars

BuildSpecInit == BdInit /\ BcdIdle /\ TocIdle /\ MwIdle /\ ApIdle /\ CardIdle /\ MainIdle /\ LcIdle /\ BmIdle /\ GiIdle /\ RsIdle /\ ImIdle /\ StIdle
BuildSpecNext == Ps2Begin \/ Ps2Disc \/ Ps3Begin \/ Ps3Disc
BuildSpec == BuildSpecInit /\ [][BuildSpecNext]_vars

BlankSpecInit == BmInit /\ BcdIdle /\ TocIdle /\ MwIdle /\ ApIdle /\ CardIdle /\ MainIdle /\ LcIdle /\ BdIdle /\ GiIdle /\ RsIdle /\ ImIdle /\ StIdle
BlankSpecNext == BmOpen \/ BmWrite \/ BmClose
BlankSpec == BlankSpecInit /\ [][BlankSpecNext]_vars

GameIdSpecInit == GiInit /\ BcdIdle /\ TocIdle /\ MwIdle /\ ApIdle /\ CardIdle /\ MainIdle /\ LcIdle /\ BdIdle /\ BmIdle /\ RsIdle /\ ImIdle /\ StIdle
GameIdSpecNext == GiArgument \/ GiGameIdFile \/ GiDiscIds \/ GiDefault \/ GiUpper
GameIdSpec == GameIdSpecInit /\ [][GameIdSpecNext]_vars

RescanSpecInit == RsInit /\ BcdIdle /\ TocIdle /\ MwIdle /\ ApIdle /\ CardIdle /\ MainIdle /\ LcIdle /\ BdIdle /\ BmIdle /\ GiIdle /\ ImIdle /\ StIdle
RescanSpecNext == RsWindow \/ RsReturn \/ RsAgain
RescanSpec == RescanSpecInit /\ [][RescanSpecNext]_vars

InstallSpecInit == ImInit /\ BcdIdle /\ TocIdle /\ MwIdle /\ ApIdle /\ CardIdle /\ MainIdle /\ LcIdle /\ BdIdle /\ BmIdle /\ GiIdle /\ RsIdle /\ StIdle
InstallSpecNext == ImGiven \/ ImStaged \/ ImSync
InstallSpec == InstallSpecInit /\ [][InstallSpecNext]_vars

StageSpecInit == StInit /\ BcdIdle /\ TocIdle /\ MwIdle /\ ApIdle /\ CardIdle /\ MainIdle /\ LcIdle /\ BdIdle /\ BmIdle /\ GiIdle /\ RsIdle /\ ImIdle
StageSpecNext == StBuild \/ StDelete \/ StReturn
StageSpec == StageSpecInit /\ [][StageSpecNext]_vars

(***************************************************************************)
(* Claims about the TOC synthesizer and the BCD codec                      *)
(***************************************************************************)
Desc == cu2[1]

\* C2: for every CU2 descriptor that declares N >= 1 tracks, the returned TOC
\* is exactly 30 + 10*N bytes long and its byte 17 is bcd(N).
C2_LengthMatchesDeclaredCount ==
    (toc_pc = "returned" /\ Desc.has_ntracks /\ Desc.ntracks >= 1)
        => /\ Len(toc) = 30 + 10 * Desc.ntracks
           /\ Byte(toc, 17) = bcd(Desc.ntracks)

\* The shape C3 is about: one track starting at 00:00:00, a declared count of
\* 1 and an end MSF, written in the given layout.
OneTrackDescriptor(style) ==
    /\ toc_pc # "idle"
    /\ Desc.style = style
    /\ Desc.has_ntracks /\ Desc.ntracks = 1
    /\ Desc.has_end
    /\ Len(Desc.tracks) = 1 /\ Desc.tracks[1].msf = <<0, 0, 0>>

LeadOutDecodesToEnd ==
    /\ Len(toc) = 40
    /\ <<decode_bcd(Byte(toc, 27)), decode_bcd(Byte(toc, 28)), decode_bcd(Byte(toc, 29))>>
           = Desc.end

\* C3 as stated: a descriptor in the layout ntracks=<int>, trk end=<MM:SS:FF>
\* with one track at 00:00:00 is accepted, and yields a 40-byte TOC whose bytes
\* 27, 28, 29 decode to the end MSF.
C3_EqualsLayoutAccepted ==
    OneTrackDescriptor("equals")
        => /\ toc_pc # "raised"
           /\ toc_pc = "returned" => LeadOutDecodesToEnd

\* C3 amended: a descriptor whose ntracks line carries the count from column 7
\* ("ntracks <int>") and whose trk end and track lines carry the MSF from
\* column 10, with one track at 00:00:00, is accepted, and yields a 40-byte TOC
\* whose bytes 27, 28, 29 decode to the end MSF.
C3_ColumnLayoutAccepted ==
    OneTrackDescriptor("columns")
        => /\ toc_pc # "raised"
           /\ toc_pc = "returned" => LeadOutDecodesToEnd

C3_Witness ==
    /\ OneTrackDescriptor("columns")
    /\ toc_pc = "returned"
    /\ Desc.end = <<1, 2, 3>>
    /\ <<Byte(toc, 27), Byte(toc, 28), Byte(toc, 29)>> = <<1, 2, 3>>

\* C10: a descriptor with no ntracks line or no trk end line makes the call
\* raise; no TOC is returned for it, so none is returned with an unwritten
\* track-count or lead-out field.
C10_MissingFieldRaises ==
    (toc_pc # "idle" /\ (~Desc.has_ntracks \/ ~Desc.has_end))
        => /\ toc_pc \in {"scan", "header", "raised"}
           /\ toc_pc = "raised" => toc_err \in {Some("TypeError"), Some("ValueError")}

C10_Witness ==
    /\ toc_pc = "raised"
    /\ Desc.has_ntracks /\ ~Desc.has_end
    /\ toc_err = Some("TypeError")

\* The records appended after the 30-byte header, and two decimal digits
\* packed into a byte.
NumRecords == (Len(toc) - 30) \div 10
Record(k) == SubSeq(toc, 30 + 10 * (k - 1) + 1, 30 + 10 * k)
Packed(v) == 16 * (v \div 10) + (v % 10)
Control(k) == IF k = 1 THEN 65 ELSE 1

\* C21 as stated: every 10-byte track record holds, in order, the control
\* byte, the BCD track number, three zero bytes, the BCD minute, second and
\* frame of the track's start, and a trailing reserved byte; every byte not
\* named is zero.
C21_RecordTrackThenMsf ==
    toc_pc # "idle" =>
        \A k \in 1..NumRecords :
            Record(k) = <<Control(k), Packed(k), 0, 0, 0,
                          Packed(Desc.tracks[k].msf[1]), Packed(Desc.tracks[k].msf[2]),
                          Packed(Desc.tracks[k].msf[3]), 0, 0>>

\* C21 as the code has it: every 10-byte track record holds the control byte
\* at 0, a zero at 1, the BCD track number at 2, four zero bytes at 3..6 and the
\* BCD minute, second and frame of the track's start at 7, 8, 9; there is no
\* byte after the frame.
C21_RecordLayout ==
    toc_pc # "idle" =>
        /\ Len(toc) >= 30 /\ (Len(toc) - 30) % 10 = 0
        /\ \A k \in 1..NumRecords :
            Record(k) = <<Control(k), 0, Packed(k), 0, 0, 0, 0,
                          Packed(Desc.tracks[k].msf[1]), Packed(Desc.tracks[k].msf[2]),
                          Packed(Desc.tracks[k].msf[3])>>

C21_Witness ==
    /\ toc_pc = "returned"
    /\ NumRecords = 2
    /\ Desc.tracks[2].msf = <<12, 34, 56>>
    /\ Record(2) = <<1, 0, 2, 0, 0, 0, 0, 18, 52, 86>>

\* C22: the k-th record emitted carries track number bcd(k) and control byte
\* 0x41 if k = 1 and 0x01 otherwise, whether its line is a data or a track
\* line; and no step alters a record appended earlier.
C22_NumberedByPosition ==
    /\ [](toc_pc # "idle" =>
            \A k \in 1..NumRecords :
                /\ Byte(Record(k), 2) = Packed(k)
                /\ Byte(Record(k), 0) = Control(k))
    /\ [][toc_pc # "idle" =>
            /\ Len(toc') >= Len(toc)
            /\ SubSeq(toc', 31, Len(toc)) = SubSeq(toc, 31, Len(toc))]_vars

C22_Witness ==
    /\ toc_pc = "returned"
    /\ NumRecords = 2
    /\ Desc.tracks[1].kind = "track" /\ Desc.tracks[2].kind = "data"
    /\ Byte(Record(1), 0) = 65 /\ Byte(Record(2), 0) = 1
    /\ Byte(Record(1), 2) = 1 /\ Byte(Record(2), 2) = 2

\* C6: for i in 0..99, bcd(i) is one byte whose low nibble is i mod 10 and
\* whose high nibble is i div 10 mod 10, and decode_bcd gives i back.
C6_BcdRoundTrip ==
    (bcd_b # None /\ bcd_i \in 0..99)
        => /\ bcd_b[1] \in 0..255
           /\ LowNibble(bcd_b[1]) = bcd_i % 10
           /\ HighNibble(bcd_b[1]) = (bcd_i \div 10) % 10
           /\ decode_bcd(bcd_b[1]) = bcd_i

C6_Witness == bcd_i = 99 /\ bcd_b = Some(153)


(***************************************************************************)
(* Claims about the magic word                                             *)
(***************************************************************************)
\* Bit n (0 = least significant) of a 16-bit word.
BitSet(w, n) == (w \div (2 ^ n)) % 2 = 1

\* The protection section of the page as the claim reads it: the cells
\* between the header and the next 'table'.
Delimited == \E i, j \in 1..Len(page) : i < j /\ page[i] = Header /\ page[j] = Table
RECURSIVE CellsUntilTable(_)
CellsUntilTable(b) ==
    IF b = <<>> \/ Head(b) = Table THEN {}
    ELSE {Head(b)} \cup CellsUntilTable(Tail(b))
ProtectionCells == CellsUntilTable(SliceFrom(page, Find(page, Header) + 1))

\* C5: the result is 0 without the section header; with it (and a section
\* closed by 'table'), bit 15 - k is set exactly when <td>S_k</td> or
\* <td>S_k+5</td> occurs in the protection section.
C5_BitPerSectorPair ==
    (mw_pc = "returned" /\ (Find(page, Header) = -1 \/ Delimited))
        => IF Find(page, Header) = -1 THEN mw = Some(0)
           ELSE \A k \in 0..15 :
                    BitSet(mw[1], 15 - k)
                        <=> (Td(Sectors[k + 1]) \in ProtectionCells
                                \/ Td(Sectors[k + 1] + 5) \in ProtectionCells)


(***************************************************************************)
(* Claims about the signature scan                                         *)
(***************************************************************************)
\* The offsets at which the signature occurs in an image.
Occurrences(image) ==
    {off \in 0..(Len(image) - 4) : SubSeq(image, off + 1, off + 4) = Signature}

PatchedAt(image, off, w) ==
    /\ <<image[off + 1], image[off + 2]>> = <<w % 256, w \div 256>>
    /\ <<image[off + 3], image[off + 4]>> = <<198, 52>>

\* C1: after the scan, every offset at which the image held the signature
\* holds the little-endian magic word followed by little-endian 0x34c6.
C1_EveryOccurrencePatched ==
    ap_pc = "returned" => \A off \in Occurrences(img0) : PatchedAt(img, off, magic_word)

\* C14: for an image that holds the signature at several offsets, in one
\* window or in different windows, all of those offsets hold the magic word
\* followed by 0x34c6 once the scan has reached the end of the file.
C14_SeveralOccurrencesAllPatched ==
    (ap_pc = "returned" /\ Cardinality(Occurrences(img0)) >= 2) =>
        Cardinality({off \in Occurrences(img0) : PatchedAt(img, off, magic_word)})
            = Cardinality(Occurrences(img0))

\* C24: the scan leaves the length of the image as it was, and every byte as
\* it was except the 4 bytes at each signature offset it patched; an image
\* without the signature is byte for byte the same after the call.
C24_ScanFrame ==
    ap_pc # "idle" =>
        /\ Len(img) = Len(img0)
        /\ \A k \in 1..Len(img0) :
               img[k] # img0[k] =>
                   \E off \in Occurrences(img0) :
                       k \in (off + 1)..(off + 4) /\ PatchedAt(img, off, magic_word)
        /\ Occurrences(img0) = {} => img = img0

C24_Witness ==
    /\ ap_pc = "returned"
    /\ img0 = <<255>> \o Signature \o <<37, 48>> \o <<255>>
    /\ magic_word = 12325
    /\ img = <<255, 37, 48, 198, 52, 37, 48, 255>>

\* C25: for every image and every 16-bit magic word, a second scan with the
\* same magic word changes nothing: the image after two calls is the image
\* after one.
C25_ScanIdempotent ==
    rs_pc = "returned" => rs_img = rs_img1


(***************************************************************************)
(* Claims about check_memory_card                                          *)
(***************************************************************************)
\* The 131072 bytes of a file that start at an offset.
CardAt(f, offset) == [file |-> f.name, from |-> offset, to |-> offset + 131072]

\* C4: a dump of 131072, 131200, 131136 or 134976 bytes yields one image, the
\* 131072 bytes from offset 0, 128, 64 or 3904; a dump of 262144 bytes yields
\* the two halves in order; every image is 131072 bytes long.
C4_ImagesBySize ==
    card_pc = "returned" =>
        LET f == card_file[1]
        IN  /\ f.size = 131072 => card_ret = Some(<<CardAt(f, 0)>>)
            /\ f.size = 131200 => card_ret = Some(<<CardAt(f, 128)>>)
            /\ f.size = 131136 => card_ret = Some(<<CardAt(f, 64)>>)
            /\ f.size = 134976 => card_ret = Some(<<CardAt(f, 3904)>>)
            /\ f.size = 262144 => card_ret = Some(<<CardAt(f, 0), CardAt(f, 131072)>>)
            /\ card_ret # None =>
                   \A k \in 1..Len(card_ret[1]) :
                       /\ card_ret[1][k].to - card_ret[1][k].from = 131072
                       /\ card_ret[1][k].to <= f.size

C4_Witness ==
    /\ card_pc = "returned"
    /\ card_file[1].size = 262144
    /\ card_ret # None /\ Len(card_ret[1]) = 2

(***************************************************************************)
(* Claims about the main pipeline                                          *)
(***************************************************************************)
\* The inputs the loop has taken for discs so far, in input order.
DiscKinds == {"cue", "cuemulti", "bin", "zip"}
Accepted == SelectSeq([p \in 1..file_i |-> p], LAMBDA p : files[p] \in DiscKinds)

C8_RegistryDrainedOnEveryExit ==
    main_pc \in {"exited", "quit", "raised"} =>
        \A k \in 1..Len(temp_files) : temp_files[k] \in submitted

\* The files a target opens for reading, and the files registered for deletion.
ReadBy(t) ==
    LET of(s) == {s[k] : k \in 1..Len(s)}
    IN  CASE t = "retroarch_bin" -> of(img_files)
          [] t = "retroarch_cue" -> of(cue_files) \cup of(img_files)
          [] OTHER -> of(cu2_files) \cup of(img_files)
Registered == {temp_files[k] : k \in 1..Len(temp_files)}

\* C23: when a requested target is about to run, every registered temporary
\* file it reads (temporary CU2, merged BIN/CUE, patched copy) still exists:
\* nothing in temp_files is deleted before the last target has finished.
C23_TempsOutliveTheirReaders ==
    (main_pc \in targets) => \A f \in ReadBy(main_pc) \cap Registered : f \in fs

\* The sizes check_memory_card knows (lines 837-849).
Recognised == {131072, 131200, 131136, 262144, 134976}

\* C9: a file whose size is none of the five yields no image list from
\* check_memory_card; nothing of it reaches mem_cards, the loop goes past it,
\* and it is handled by its extension: an image, cue sheet or zip becomes a
\* disc, any other file becomes nothing.
C9_UnrecognisedSizeIsNotACard ==
    \A p \in 1..file_i :
        LET f == [name |-> ArgPath(p, files[p]), size |-> KindSize(files[p])]
        IN  (f.size <= 262144 /\ f.size \notin Recognised) =>
                /\ check_memory_card(f) = None
                /\ \A k \in 1..Len(mem_cards) : mem_cards[k].file # f.name
                /\ IF KindExt(files[p]) \in {"cue", "bin", "img", "zip"}
                      THEN \E k \in 1..Len(img_files) : OriginOf(img_files[k]) = p
                      ELSE \A k \in 1..Len(img_files) : OriginOf(img_files[k]) # p

\* After a memory card, a file of 131073 bytes is passed over and the image
\* after it is taken.
C9_Witness ==
    /\ files = <<"card", "small", "bin">>
    /\ file_i = 3
    /\ mc = None
    /\ Len(mem_cards) = 1
    /\ Len(img_files) = 1


(***************************************************************************)
(* Claims about the libcrypt step and apply_ppf                            *)
(***************************************************************************)
LcRegistered(k) == lc_discs[k] # None
\* The patcher the caller's configuration selects.
LcSelected == IF lc_args[1].auto_libcrypt THEN "auto" ELSE "known"
\* The configurations in which __main__ patches at all: --auto-libcrypt, a
\* PSP, PS2 or PSIO target, or a PS3 target with --ps3-libcrypt.
LcEnabled ==
    \/ lc_args[1].auto_libcrypt
    \/ lc_args[1].targets \cap {"psp", "ps2", "psio"} # {}
    \/ ("ps3" \in lc_args[1].targets /\ lc_args[1].ps3_libcrypt)

\* C11 as stated: when the step is over, every registered disc of a registered
\* title has had exactly one patcher run on its image, the one auto_libcrypt
\* selects, whichever targets were asked for.
C11_ExactlyOnePatcherPerDisc ==
    (lc_pc = "packaging" /\ LcRegistered(1)) =>
        \A k \in 1..Len(lc_discs) :
            LcRegistered(k) =>
                /\ Len(lc_calls[k]) = 1
                /\ lc_calls[k][1].ran = LcSelected

\* C11 as the code has it: no disc ever has more than one patcher run on it,
\* and the one that runs is the one auto_libcrypt selects; when the title is
\* registered with all its discs and patching is enabled, the step ends with
\* one run per disc; when the title is not registered or patching is not
\* enabled, no patcher runs at all.
C11_OnePatcherWhenEnabled ==
    lc_pc # "idle" =>
        /\ \A k \in 1..Len(lc_discs) :
              /\ Len(lc_calls[k]) <= 1
              /\ lc_calls[k] # <<>> =>
                    /\ lc_calls[k][1].ran = LcSelected
                    /\ LcEnabled /\ \A j \in 1..Len(lc_discs) : LcRegistered(j)
        /\ (lc_pc = "packaging" /\ LcEnabled /\ \A j \in 1..Len(lc_discs) : LcRegistered(j))
              => \A k \in 1..Len(lc_discs) : Len(lc_calls[k]) = 1
        /\ (lc_pc = "packaging" /\ ~LcEnabled)
              => \A k \in 1..Len(lc_discs) : lc_calls[k] = <<>>

C11_Witness ==
    /\ lc_pc = "packaging"
    /\ Len(lc_discs) = 2
    /\ lc_args[1].targets = {"psp"} /\ ~lc_args[1].auto_libcrypt
    /\ \A k \in 1..2 : Len(lc_calls[k]) = 1 /\ lc_calls[k][1].ran = "known"

\* C12: a disc whose id is not in the registry is left as it was given, no
\* patcher runs on it, and the run does not fail; also for a later disc of a
\* title whose first disc is registered.
C12_UnregisteredDiscIsNoOp ==
    lc_pc # "idle" =>
        \A k \in 1..Len(lc_discs) :
            ~LcRegistered(k) =>
                /\ lc_img_files[k] = "given"
                /\ lc_calls[k] = <<>>
                /\ lc_pc # "raised"

\* C13: without auto_libcrypt, a registered literal patch is applied and
\* nothing is fetched, also when an archive is registered too; else a
\* registered archive is fetched and, once received, its member is extracted,
\* registered and applied; else nothing is written to the image.
C13_KnownPatchDispatch ==
    lc_pc # "idle" =>
        \A k \in 1..Len(lc_discs) : \A i \in 1..Len(lc_calls[k]) :
            LET c == lc_calls[k][i]
                e == lc_discs[k][1]
            IN  c.ran = "known" =>
                    /\ e.ppf => (c.wrote = "ppf" /\ c.fetched = "no" /\ c.temp = <<>>)
                    /\ (~e.ppf /\ e.ppfzip) =>
                          /\ c.fetched # "no"
                          /\ c.fetched = "200" => (c.wrote = "ppfzip" /\ c.temp = <<"ppfzip[1]">>)
                    /\ (~e.ppf /\ ~e.ppfzip) =>
                          (c.wrote = "none" /\ c.fetched = "no" /\ c.temp = <<>>)

C13_Witness ==
    /\ lc_pc = "packaging"
    /\ Len(lc_discs) = 2
    /\ lc_discs[1] = Some(Entry(TRUE, TRUE)) /\ lc_calls[1] # <<>>
    /\ lc_calls[1][1].wrote = "ppf" /\ lc_calls[1][1].fetched = "no"
    /\ lc_discs[2] = Some(Entry(FALSE, TRUE)) /\ lc_calls[2] # <<>>
    /\ lc_calls[2][1].wrote = "ppfzip" /\ lc_calls[2][1].fetched = "200"

\* C19: a fetch of the patch archive that fails, by a status other than 200 or
\* by a failed connection, is not fatal: nothing is written to the image, no
\* temporary file is registered by apply_ppf, and the run goes on.
C19_FetchFailureIsNotFatal ==
    lc_pc # "idle" =>
        \A k \in 1..Len(lc_discs) : \A i \in 1..Len(lc_calls[k]) :
            LET c == lc_calls[k][i]
            IN  c.fetched \in {"404", "unreachable"} =>
                    /\ c.wrote = "none" /\ c.temp = <<>>
                    /\ ~c.raised
                    /\ lc_pc # "raised"


C16_OneDiscPerVcd ==
    (bd_target = "ps2" /\ bd_pc = "done") =>
        /\ Cardinality(DOMAIN bd_vcd) = Len(bd_ccd)
        /\ \A i \in 1..Len(bd_ccd) :
              /\ VcdName(i - 1, Len(bd_ccd)) \in DOMAIN bd_vcd
              /\ bd_vcd[VcdName(i - 1, Len(bd_ccd))]
                    = <<Added(i, TocSource(bd_ccd[i]))>>

\* The lines of a DISCS.TXT that name a VCD.
Entries(text) == SelectSeq(text, LAMBDA line : line # "")

\* C17 as stated: DISCS.TXT is written if and only if there is more than one
\* disc, and its entries are the VCDs of ordinals 1..n in order, one per disc.
C17_DiscsTxtListsEveryDisc ==
    (bd_target = "ps2" /\ bd_pc = "done") =>
        LET n == Len(bd_ccd)
        IN  /\ (bd_written # <<>>) <=> (n > 1)
            /\ \A d \in DOMAIN bd_written :
                  Entries(bd_written[d]) = [k \in 1..n |-> DiscsTxtEntry(k - 1)]

\* C17 as the code has it: DISCS.TXT is written, beside every VCD, if and only
\* if there is more than one disc; it always has four lines; line k names the
\* VCD of ordinal k for k up to the smaller of n and 4 and is empty after
\* that, so a fifth or later disc has no entry.
C17_DiscsTxtListsFirstFour ==
    (bd_target = "ps2" /\ bd_pc = "done") =>
        LET n == Len(bd_ccd)
        IN  /\ (bd_written # <<>>) <=> (n > 1)
            /\ n > 1 => DOMAIN bd_written = DOMAIN bd_vcd
            /\ \A d \in DOMAIN bd_written :
                  /\ Len(bd_written[d]) = 4
                  /\ \A k \in 1..4 :
                        bd_written[d][k] = IF k <= n THEN DiscsTxtEntry(k - 1) ELSE ""

C17_Witness ==
    /\ bd_target = "ps2" /\ bd_pc = "done"
    /\ Len(bd_ccd) = 5
    /\ bd_written["CD5.VCD"] = <<"CD1.VCD", "CD2.VCD", "CD3.VCD", "CD4.VCD">>


(***************************************************************************)
(* Claims about create_blank_mc                                            *)
(***************************************************************************)
\* C18 as stated: whatever was at the path, the image is 131072 bytes long,
\* begins with 'M', 'C', and its last byte, at offset 131071, is not zero.
C18_BlankCardNonZeroSentinel ==
    bm_pc = "closed" =>
        /\ bm_file[1].size = 131072
        /\ ByteAt(bm_file[1], 0) = 77 /\ ByteAt(bm_file[1], 1) = 67
        /\ ByteAt(bm_file[1], 131071) # 0

\* C18 as the code has it: whatever was at the path, the image is 131072 bytes
\* long, begins with 'M', 'C', holds nothing of the earlier file, and its last
\* byte, at offset 131071, is written and is zero.
C18_BlankCardZeroLastByte ==
    bm_pc = "closed" =>
        /\ bm_file[1].size = 131072
        /\ ByteAt(bm_file[1], 0) = 77 /\ ByteAt(bm_file[1], 1) = 67
        /\ bm_file[1].fill = 0
        /\ 131071 \in DOMAIN bm_file[1].data
        /\ ByteAt(bm_file[1], 131071) = 0

C18_Witness ==
    /\ bm_pc = "closed"
    /\ bm_prior = Some(File(200000, 255, <<>>))
    /\ bm_file[1].size = 131072
    /\ ByteAt(bm_file[1], 4480) = 255 /\ ByteAt(bm_file[1], 128) = 160


(***************************************************************************)
(* Claims about the game id                                                *)
(***************************************************************************)
\* C20: whenever --game_id is supplied, the game id the targets are packaged
\* under is the supplied value, upper-cased, for one disc and for several; it
\* is never an id read from a GAME_ID file or from a disc image.
C20_GameIdArgumentForces ==
    (gi_pc = "done" /\ Truthy(gi_arg)) => gi_game_id = Some(Upper(gi_arg[1]))


C27_NoStagingResidue ==
    /\ (st_pc = "drain" /\ st_step = 0) =>
            st_fs \subseteq {st_temp[k] : k \in 1..Len(st_temp)}
    /\ \A i \in 1..Len(st_temp) : \A j \in (i + 1)..Len(st_temp) :
            st_temp[j] = StageDir \/ Parent(st_temp[j]) # st_temp[i]
    /\ st_pc = "returned" => st_fs = {}

====
